---- MODULE Spec2Model ----
(***************************************************************************)
(* A model of the data-plane core of ljluestc/router (rust/src):           *)
(*   routing_table.rs  RoutingTable behind the reader-writer lock of       *)
(*                     packet_engine.rs,                                   *)
(*   memory_pool.rs    MemoryPool and its buffers mutex,                   *)
(*   analytics.rs      AnalyticsEngine's flow table,                       *)
(*   metrics.rs        MetricsCollector's atomics,                         *)
(*   packet_engine.rs  PacketEngine's per-frame pipeline and counters,     *)
(*   packet_processor.rs  PacketProcessor's frame checks and statistics.   *)
(* Each component has its own next-state relation and specification; the   *)
(* variables of the other components stay at their initial values.         *)
(***************************************************************************)
EXTENDS Integers, Sequences, FiniteSets, TLC

VARIABLES
    \* wall clock / monotonic clock, in seconds
    clock,
    \* ---- RoutingTable (routing_table.rs:8-14) and its lock ----
    routes, protocol_counts, interface_counts, last_update, total_updates,
    rt_writer, rt_readers, rt_pc, rt_dest, rt_result, rt_ret,
    \* the mutating call a thread is in: its name and argument
    rt_op,
    \* ---- MemoryPool (memory_pool.rs:6-13), its buffers mutex and its callers ----
    buffers, buffer_size, max_pool_size,
    created_buffers, total_allocations, total_deallocations,
    pool_lock, pool_pc, pool_arg, leased,
    \* how many get_packet and return_packet calls have returned
    pool_calls,
    \* ---- AnalyticsEngine's flow table (analytics.rs:12), its lock and its callers ----
    flow_table, flow_lock, flow_pc, flow_pkt, flow_id, flow_now, flow_found,
    \* the process_packet calls that returned, per 5-tuple: how many, and their bytes
    flow_calls,
    \* a cleanup_old_flows call: its max_age, and the keys its retain dropped
    flow_max_age, flow_evicted,
    \* ---- MetricsCollector's atomics (metrics.rs:52-64) ----
    packets_processed, bytes_processed, packets_dropped, packets_forwarded,
    packets_routed, errors, latency_sum, latency_count, max_latency, min_latency,
    \* the recording threads: where each is, its argument, the value its CAS loop loaded
    m_pc, m_arg, m_cur,
    \* a get_metrics call: the next load, the Metrics value being composed,
    \* and the packet counters of the Metrics value the call before it returned
    snap_pc, snap, prev_snap,
    \* the record_* calls that returned, and the latencies passed to record_latency
    m_calls, lat_started, lat_done, snap_lat_done,
    \* a reset call: the stores it has done, and the returned record_* calls
    \* counted when the last reset returned
    reset_pc, reset_calls,
    \* ---- PacketEngine (packet_engine.rs:24-41): its PacketStats atomics, and per
    \* capture task where it is in process_packet and the frame it is processing
    eng_stats, eng_pc, eng_frame,
    \* what the process_packet call of a task has done so far: the counters it
    \* added to, the routing table lookups it made, and how it ended
    eng_call,
    \* ---- PacketProcessor (packet_processor.rs:68-74): its global PacketStats,
    \* the batch a worker collected and the results of process_single_packet
    proc_stats, proc_batch, proc_results,
    \* ---- the analytics buffers (clickhouse.rs:496, clickhouse_analytics.rs:74),
    \* the flushes whose insert is in progress, the records the sink took in a
    \* successful insert, and how many records each buffer has accepted
    metrics_buffer, flushing, inserted, recorded,
    \* ---- PacketProcessor's workers (packet_processor.rs:68-74, 94-240): the
    \* is_running flag, how many workers initialize has spawned, whether start
    \* has returned, whether the interface has its channel, the channel, where
    \* each worker is, the batch it collected, the holder of the statistics
    \* write lock, and how many packets process_packet accepted
    is_running, init_pc, started, registered, channel, worker_pc, worker_batch,
    stats_lock, accepted,
    \* ---- MemoryPool's four mutexes (memory_pool.rs:66-73): the holder of each,
    \* the poisoned ones, per thread the rest of the call it is in and the
    \* counters it read in get_stats, the threads that panicked, the counters,
    \* the number of pooled buffers and of buffers each thread holds, and the
    \* number of calls started
    lk_holder, lk_poisoned, lk_prog, lk_read, lk_panicked, lk_counts, lk_leased, lk_calls,
    \* ---- AnalyticsService (clickhouse_analytics.rs:622-625): its running flag,
    \* the collection tasks that have not ended, and how many start calls spawned
    svc_running, svc_tasks, svc_starts,
    \* ---- AnalyticsEngine's route-metrics history (analytics.rs:13) and its
    \* lock: the stored list, the holder of the write lock, where each caller
    \* of add_route_metrics is, and every entry pushed so far, in push order
    route_metrics, rm_lock, rm_pc, rm_added

rt_vars == <<routes, protocol_counts, interface_counts, last_update, total_updates,
             rt_writer, rt_readers, rt_pc, rt_dest, rt_result, rt_ret, rt_op>>

pool_vars == <<buffers, buffer_size, max_pool_size,
               created_buffers, total_allocations, total_deallocations,
               pool_lock, pool_pc, pool_arg, leased, pool_calls>>

flow_vars == <<flow_table, flow_lock, flow_pc, flow_pkt, flow_id, flow_now, flow_found,
               flow_calls,
              flow_max_age, flow_evicted>>

atomics == <<packets_processed, bytes_processed, packets_dropped, packets_forwarded,
             packets_routed, errors, latency_sum, latency_count, max_latency, min_latency>>

m_vars == <<atomics, m_pc, m_arg, m_cur, snap_pc, snap, prev_snap, m_calls, lat_started, lat_done,
            snap_lat_done, reset_pc, reset_calls>>

\* the packet engine and the packet processor
eng_vars == <<eng_stats, eng_pc, eng_frame, eng_call>>

proc_vars == <<proc_stats, proc_batch, proc_results>>

sink_vars == <<metrics_buffer, flushing, inserted, recorded>>

worker_vars == <<is_running, init_pc, started, registered, channel, worker_pc, worker_batch,
                 stats_lock, accepted>>

lock_vars == <<lk_holder, lk_poisoned, lk_prog, lk_read, lk_panicked, lk_counts, lk_leased,
               lk_calls>>

svc_vars == <<svc_running, svc_tasks, svc_starts>>

hist_vars == <<route_metrics, rm_lock, rm_pc, rm_added>>

rest_vars == <<worker_vars, lock_vars, svc_vars, hist_vars>>

ext_vars == <<eng_vars, proc_vars, sink_vars, rest_vars>>

vars == <<clock, rt_vars, pool_vars, flow_vars, m_vars, ext_vars>>

----------------------------------------------------------------------------
(* Bounds of the model *)

NumThreads == 2
MaxClock == 2
MaxUpdates == 3
MaxPoolSizeCfg == 2
BufferSizeCfg == 2
MaxAllocs == 3
MaxPackets == 3
MaxRecords == 3
MaxPoolCalls == 5
MaxStarts == 2
\* the length the route-metrics history is cut back to (1000 in the source)
HistoryWindow == 2
\* the buffer length that triggers a flush (1000 in the source)
BatchSize == 2

Threads == 1..NumThreads
NoThread == 0

----------------------------------------------------------------------------
(* Option<T>: None is the empty sequence, Some(x) is <<x>> *)

None == <<>>
Some(x) == <<x>>

(* Result<(), String> *)
Ok == <<"Ok">>
Err(msg) == <<"Err", msg>>

(* u32 values are kept as two 16-bit halves <<high, low>>: u32::MAX does   *)
(* not fit the model checker's integers.                                   *)
U32(n) == <<n \div 65536, n % 65536>>
U32_MAX == <<65535, 65535>>
U32Less(a, b) == a[1] < b[1] \/ (a[1] = b[1] /\ a[2] < b[2])

(* The iteration orders of a HashMap with key set S: unspecified by the    *)
(* language, so every order is possible.                                   *)
Orders(S) == {o \in [1..Cardinality(S) -> S] : \A i, j \in 1..Cardinality(S) : i # j => o[i] # o[j]}

----------------------------------------------------------------------------
(* Route (lib.rs:135-165) *)

RouteNew(destination, gateway, interface, prefix_length, metric, protocol) ==
    [destination |-> destination, gateway |-> gateway, interface |-> interface,
     prefix_length |-> prefix_length, metric |-> metric, protocol |-> protocol,
     is_active |-> TRUE]

----------------------------------------------------------------------------
(* std parsing, tabulated on the strings the model uses *)

(* IpAddr::from_str *)
IpAddrFromStr(s) ==
    CASE s = "0.0.0.0"     -> Some([family |-> "V4", octets |-> <<0, 0, 0, 0>>])
      [] s = "10.0.0.0"    -> Some([family |-> "V4", octets |-> <<10, 0, 0, 0>>])
      [] s = "10.0.0.5"    -> Some([family |-> "V4", octets |-> <<10, 0, 0, 5>>])
      [] s = "8.8.8.8"     -> Some([family |-> "V4", octets |-> <<8, 8, 8, 8>>])
      [] s = "10.0.0.1"    -> Some([family |-> "V4", octets |-> <<10, 0, 0, 1>>])
      [] s = "2001:db8::"  -> Some([family |-> "V6",
                                    octets |-> <<32, 1, 13, 184, 0, 0, 0, 0, 0, 0, 0, 0, 0, 0, 0, 0>>])
      [] s = "fe80::1"     -> Some([family |-> "V6",
                                    octets |-> <<254, 128, 0, 0, 0, 0, 0, 0, 0, 0, 0, 0, 0, 0, 0, 1>>])
      [] OTHER             -> None

(* str::split('/') *)
SplitSlash(s) ==
    CASE s = "0.0.0.0/0"   -> <<"0.0.0.0", "0">>
      [] s = "10.0.0.0/24" -> <<"10.0.0.0", "24">>
      [] s = "10.0.0.0/33" -> <<"10.0.0.0", "33">>
      [] s = "2001:db8::/32" -> <<"2001:db8::", "32">>
      [] OTHER             -> <<s>>

(* str::parse::<u8> *)
ParseU8(s) ==
    CASE s = "0"  -> Some(0)
      [] s = "24" -> Some(24)
      [] s = "33" -> Some(33)
      [] s = "32" -> Some(32)
      [] OTHER    -> None

----------------------------------------------------------------------------
(* RoutingTable::matches_ipv4_network (routing_table.rs:174-189); a u32 is *)
(* its four big-endian octets, as u32::from(Ipv4Addr) builds it.           *)

Pow2(n) == IF n = 0 THEN 1 ELSE IF n = 1 THEN 2 ELSE IF n = 2 THEN 4
           ELSE IF n = 3 THEN 8 ELSE IF n = 4 THEN 16 ELSE IF n = 5 THEN 32
           ELSE IF n = 6 THEN 64 ELSE IF n = 7 THEN 128 ELSE 256

RECURSIVE BitAnd8(_, _, _)
BitAnd8(a, b, bits) ==
    IF bits = 0 THEN 0
    ELSE 2 * BitAnd8(a \div 2, b \div 2, bits - 1) + (IF a % 2 = 1 /\ b % 2 = 1 THEN 1 ELSE 0)

(* octet i (1 = most significant) of !((1u32 << (32 - prefix_len)) - 1), and 0 for prefix_len = 0 *)
MaskOctet(prefix_len, i) ==
    LET ones == IF prefix_len - 8 * (i - 1) >= 8 THEN 8
                ELSE IF prefix_len - 8 * (i - 1) <= 0 THEN 0
                ELSE prefix_len - 8 * (i - 1)
    IN  256 - Pow2(8 - ones)

matches_ipv4_network(dest, network, prefix_len) ==
    IF prefix_len > 32 THEN FALSE
    ELSE \A i \in 1..4 :
            BitAnd8(dest[i], MaskOctet(prefix_len, i), 8)
              = BitAnd8(network[i], MaskOctet(prefix_len, i), 8)

(* RoutingTable::matches_ipv6_network (routing_table.rs:192-219); the mask *)
(* 0xFF << (8 - remaining_bits) is a u8, the bits shifted out are lost     *)
matches_ipv6_network(dest, network, prefix_len) ==
    IF prefix_len > 128 THEN FALSE
    ELSE LET full_bytes == prefix_len \div 8
             remaining_bits == prefix_len % 8
             mask == 256 - Pow2(8 - remaining_bits)
         IN  /\ \A i \in 1..full_bytes : dest[i] = network[i]
             /\ (remaining_bits > 0 /\ full_bytes < 16) =>
                    BitAnd8(dest[full_bytes + 1], mask, 8) = BitAnd8(network[full_bytes + 1], mask, 8)

(* RoutingTable::matches_destination (routing_table.rs:144-171) *)
matches_destination(dest_ip, route_dest) ==
    LET parts == SplitSlash(route_dest) IN
    IF Len(parts) # 2 THEN FALSE
    ELSE LET network_addr == IpAddrFromStr(parts[1])
             prefix_len == ParseU8(parts[2])
         IN  IF network_addr = None THEN FALSE
             ELSE IF prefix_len = None THEN FALSE
             ELSE IF dest_ip.family = "V4" /\ network_addr[1].family = "V4"
                  THEN matches_ipv4_network(dest_ip.octets, network_addr[1].octets, prefix_len[1])
                  ELSE IF dest_ip.family = "V6" /\ network_addr[1].family = "V6"
                  THEN matches_ipv6_network(dest_ip.octets, network_addr[1].octets, prefix_len[1])
                  ELSE FALSE

(* The loop of RoutingTable::find_best_route (routing_table.rs:124-140)    *)
(* over the table's values in the iteration order `order`.                 *)
RECURSIVE FindBestLoop(_, _, _, _, _)
FindBestLoop(table, order, dest_addr, best_route, best_metric) ==
    IF order = <<>> THEN best_route
    ELSE LET route == table[Head(order)] IN
         IF ~route.is_active
         THEN FindBestLoop(table, Tail(order), dest_addr, best_route, best_metric)
         ELSE IF matches_destination(dest_addr, route.destination)
                 /\ U32Less(route.metric, best_metric)
              THEN FindBestLoop(table, Tail(order), dest_addr, Some(route), route.metric)
              ELSE FindBestLoop(table, Tail(order), dest_addr, best_route, best_metric)

(* RoutingTable::find_best_route (routing_table.rs:118-141) *)
find_best_route(table, order, dest_ip) ==
    LET dest_addr == IpAddrFromStr(dest_ip) IN
    IF dest_addr = None THEN None
    ELSE FindBestLoop(table, order, dest_addr[1], None, U32_MAX)

(* RoutingTable::validate_route (routing_table.rs:222-249) *)
validate_route(route) ==
    IF route.destination = "" THEN Err("Destination cannot be empty")
    ELSE IF route.gateway = "" THEN Err("Gateway cannot be empty")
    ELSE IF route.interface = "" THEN Err("Interface cannot be empty")
    ELSE IF route.prefix_length > 128 THEN Err("Prefix length cannot exceed 128")
    ELSE IF route.protocol = "" THEN Err("Protocol cannot be empty")
    ELSE Ok

----------------------------------------------------------------------------
(* HashMap helpers: a map is a function whose DOMAIN is its key set *)

MapInsert(m, k, v) == [x \in DOMAIN m \cup {k} |-> IF x = k THEN v ELSE m[x]]
MapRemove(m, k) == [x \in DOMAIN m \ {k} |-> m[x]]
EmptyMap == [x \in {} |-> 0]

(* *map.entry(k).or_insert(0) += 1 *)
CountUp(m, k) == MapInsert(m, k, (IF k \in DOMAIN m THEN m[k] ELSE 0) + 1)

(* if let Some(count) = map.get_mut(k) { *count -= 1; if *count == 0 { map.remove(k) } } *)
CountDown(m, k) ==
    IF k \notin DOMAIN m THEN m
    ELSE IF m[k] - 1 = 0 THEN MapRemove(m, k)
    ELSE MapInsert(m, k, m[k] - 1)

----------------------------------------------------------------------------
(* Inputs of the routing table operations *)

Destinations == {"0.0.0.0/0", "10.0.0.0/24"}
Metrics == {U32(1), U32(100), U32_MAX}
LookupAddresses == {"10.0.0.5", "8.8.8.8", "not-an-ip"}
NoAddress == ""

PrefixLengthOf(destination) == IF destination = "10.0.0.0/24" THEN 24 ELSE 0

(* routes that differ in protocol and interface *)
StatsRouteInputs ==
    {RouteNew(d, "192.168.1.1", i, PrefixLengthOf(d), U32(1), p) :
        d \in Destinations, i \in {"eth0", "eth1"}, p \in {"static", "bgp"}}

RouteInputs ==
    {RouteNew(d, "192.168.1.1", "eth0", PrefixLengthOf(d), m, "static") :
        d \in Destinations, m \in Metrics}
    \cup {[RouteNew(d, "192.168.1.1", "eth0", PrefixLengthOf(d), U32(1), "static")
              EXCEPT !.is_active = FALSE] : d \in Destinations}
    \cup {RouteNew("", "192.168.1.1", "eth0", 24, U32(1), "static"),
          RouteNew("10.0.0.0/24", "", "eth0", 24, U32(1), "static"),
          RouteNew("10.0.0.0/24", "192.168.1.1", "", 24, U32(1), "static"),
          RouteNew("10.0.0.0/24", "192.168.1.1", "eth0", 33, U32(1), "static"),
          RouteNew("10.0.0.0/24", "192.168.1.1", "eth0", 129, U32(1), "static")}

----------------------------------------------------------------------------
(* The reader-writer lock around the table (packet_engine.rs:26, 364):     *)
(* write() is granted when nobody holds the lock, read() when no writer    *)
(* does.                                                                   *)

CanWrite(t) == rt_writer = NoThread /\ rt_readers = {}
CanRead(t) == rt_writer = NoThread

RtIdle(t) == rt_pc[t] = "idle"

(* a mutating caller takes the table exclusively (&mut self) *)
RtWriteLock(t) ==
    /\ RtIdle(t)
    /\ CanWrite(t)
    /\ total_updates < MaxUpdates
    /\ rt_writer' = t
    /\ rt_pc' = [rt_pc EXCEPT ![t] = "writing"]
    /\ UNCHANGED <<ext_vars, m_vars, flow_vars, pool_vars, clock, routes, protocol_counts, interface_counts, last_update,
                   total_updates, rt_readers, rt_dest, rt_result, rt_ret, rt_op>>

(* the handler returns `ret` to its caller, which still holds the guard *)
RtReturn(t, ret) ==
    /\ rt_pc' = [rt_pc EXCEPT ![t] = "wrote"]
    /\ rt_ret' = [rt_ret EXCEPT ![t] = ret]
    /\ UNCHANGED <<ext_vars, m_vars, flow_vars, pool_vars, clock, rt_writer, rt_readers, rt_dest, rt_result>>

(* RoutingTable::add_route (routing_table.rs:28-45) *)
add_route(t, route) ==
    /\ rt_pc[t] = "writing"
    /\ rt_op' = [rt_op EXCEPT ![t] = <<"add_route", route>>]
    /\ IF validate_route(route) # Ok
       THEN /\ RtReturn(t, validate_route(route))
            /\ UNCHANGED <<routes, protocol_counts, interface_counts, last_update, total_updates>>
       ELSE /\ routes' = MapInsert(routes, route.destination, route)
            /\ IF route.destination \notin DOMAIN routes
               THEN /\ protocol_counts' = CountUp(protocol_counts, route.protocol)
                    /\ interface_counts' = CountUp(interface_counts, route.interface)
               ELSE UNCHANGED <<protocol_counts, interface_counts>>
            /\ last_update' = clock
            /\ total_updates' = total_updates + 1
            /\ RtReturn(t, Ok)

(* RoutingTable::remove_route (routing_table.rs:48-70) *)
remove_route(t, destination) ==
    /\ rt_pc[t] = "writing"
    /\ rt_op' = [rt_op EXCEPT ![t] = <<"remove_route", destination>>]
    /\ IF destination \in DOMAIN routes
       THEN /\ routes' = MapRemove(routes, destination)
            /\ protocol_counts' = CountDown(protocol_counts, routes[destination].protocol)
            /\ interface_counts' = CountDown(interface_counts, routes[destination].interface)
            /\ last_update' = clock
            /\ total_updates' = total_updates + 1
       ELSE UNCHANGED <<routes, protocol_counts, interface_counts, last_update, total_updates>>
    /\ RtReturn(t, Ok)

(* RoutingTable::update_route (routing_table.rs:73-84) *)
update_route(t, destination, route) ==
    /\ rt_pc[t] = "writing"
    /\ rt_op' = [rt_op EXCEPT ![t] = <<"update_route", destination, route>>]
    /\ IF destination \notin DOMAIN routes
       THEN /\ RtReturn(t, Err("Route not found"))
            /\ UNCHANGED <<routes, protocol_counts, interface_counts, last_update, total_updates>>
       ELSE IF validate_route(route) # Ok
       THEN /\ RtReturn(t, validate_route(route))
            /\ UNCHANGED <<routes, protocol_counts, interface_counts, last_update, total_updates>>
       ELSE /\ routes' = MapInsert(routes, destination, route)
            /\ last_update' = clock
            /\ total_updates' = total_updates + 1
            /\ UNCHANGED <<protocol_counts, interface_counts>>
            /\ RtReturn(t, Ok)

(* HashMap::get(key).unwrap_or(&0) *)
CountOf(counts, key) == IF key \in DOMAIN counts THEN counts[key] ELSE 0

(* RoutingTable::get_stats (routing_table.rs:260-277) *)
get_stats ==
    [total_routes |-> Cardinality(DOMAIN routes),
     active_routes |-> Cardinality({k \in DOMAIN routes : routes[k].is_active}),
     bgp_routes |-> CountOf(protocol_counts, "bgp"),
     ospf_routes |-> CountOf(protocol_counts, "ospf"),
     isis_routes |-> CountOf(protocol_counts, "isis"),
     static_routes |-> CountOf(protocol_counts, "static"),
     last_update |-> last_update]

(* RoutingTable::get_interface_distribution (routing_table.rs:285-287) *)
get_interface_distribution == interface_counts

(* the caller drops the write guard (lib.rs:37-41) *)
RtWriteUnlock(t) ==
    /\ rt_pc[t] = "wrote"
    /\ rt_writer' = NoThread
    /\ rt_pc' = [rt_pc EXCEPT ![t] = "idle"]
    /\ rt_ret' = [rt_ret EXCEPT ![t] = Ok]
    /\ rt_op' = [rt_op EXCEPT ![t] = <<>>]
    /\ UNCHANGED <<ext_vars, m_vars, flow_vars, pool_vars, clock, routes, protocol_counts, interface_counts, last_update,
                   total_updates, rt_readers, rt_dest, rt_result>>

(* RtReadLock with the read guard dropped at once: the lookup then runs    *)
(* without the lock                                                        *)
RtReadLockGuardDropped(t, dest_ip) ==
    /\ RtIdle(t)
    /\ CanRead(t)
    /\ rt_pc' = [rt_pc EXCEPT ![t] = "reading"]
    /\ rt_dest' = [rt_dest EXCEPT ![t] = dest_ip]
    /\ UNCHANGED <<ext_vars, m_vars, flow_vars, pool_vars, clock, routes, protocol_counts, interface_counts, last_update,
                   total_updates, rt_writer, rt_readers, rt_result, rt_ret, rt_op>>

(* routing_table.read().await (packet_engine.rs:364) *)
RtReadLock(t, dest_ip) ==
    /\ RtIdle(t)
    /\ CanRead(t)
    /\ rt_readers' = rt_readers \cup {t}
    /\ rt_pc' = [rt_pc EXCEPT ![t] = "reading"]
    /\ rt_dest' = [rt_dest EXCEPT ![t] = dest_ip]
    /\ UNCHANGED <<ext_vars, m_vars, flow_vars, pool_vars, clock, routes, protocol_counts, interface_counts, last_update,
                   total_updates, rt_writer, rt_result, rt_ret, rt_op>>

(* the lookup under the read guard: find_best_route in some iteration order *)
RtLookup(t) ==
    /\ rt_pc[t] = "reading"
    /\ \E order \in Orders(DOMAIN routes) :
          rt_result' = [rt_result EXCEPT ![t] = find_best_route(routes, order, rt_dest[t])]
    /\ rt_pc' = [rt_pc EXCEPT ![t] = "looked"]
    /\ UNCHANGED <<ext_vars, m_vars, flow_vars, pool_vars, clock, routes, protocol_counts, interface_counts, last_update,
                   total_updates, rt_writer, rt_readers, rt_dest, rt_ret, rt_op>>

(* the read guard is dropped at the end of the caller (packet_engine.rs:376) *)
RtReadUnlock(t) ==
    /\ rt_pc[t] = "looked"
    /\ rt_readers' = rt_readers \ {t}
    /\ rt_pc' = [rt_pc EXCEPT ![t] = "idle"]
    /\ rt_result' = [rt_result EXCEPT ![t] = None]
    /\ rt_dest' = [rt_dest EXCEPT ![t] = NoAddress]
    /\ UNCHANGED <<ext_vars, m_vars, flow_vars, pool_vars, clock, routes, protocol_counts, interface_counts, last_update,
                   total_updates, rt_writer, rt_ret, rt_op>>

(* time passes *)
Tick ==
    /\ clock < MaxClock
    /\ clock' = clock + 1
    /\ UNCHANGED <<rt_vars, pool_vars, flow_vars, m_vars, ext_vars>>

----------------------------------------------------------------------------
(* MemoryPool (memory_pool.rs). A PacketBuffer is                          *)
(* [id, data_len (data.len()), size, created_at, last_used, dirty]; dirty  *)
(* says that data holds a byte that is not 0.                              *)

MaxAgeSecs == 300
MaxIdleSecs == 60

(* PacketBuffer::new (memory_pool.rs:27-35) *)
PacketBufferNew(size, id) ==
    [id |-> id, data_len |-> size, size |-> size, created_at |-> clock, last_used |-> clock,
     dirty |-> FALSE]

(* PacketBuffer::resize (memory_pool.rs:56-62) *)
resize(buf, new_size) ==
    [buf EXCEPT !.data_len = IF new_size > buf.data_len THEN new_size ELSE buf.data_len,
                !.size = new_size,
                !.last_used = clock]

(* PacketBuffer::is_expired (memory_pool.rs:65-67) *)
is_expired(buf, max_age) == clock - buf.created_at > max_age

(* PacketBuffer::is_stale (memory_pool.rs:70-72) *)
is_stale(buf, max_idle) == clock - buf.last_used > max_idle

(* buffers.iter().position(|buf| buf.data.len() >= size): 0 stands for None *)
PositionIgnoringSize(bufs, size) == IF Len(bufs) > 0 THEN 1 ELSE 0

Position(bufs, size) ==
    IF \E i \in 1..Len(bufs) : bufs[i].data_len >= size
    THEN CHOOSE i \in 1..Len(bufs) :
            /\ bufs[i].data_len >= size
            /\ \A j \in 1..(i - 1) : bufs[j].data_len < size
    ELSE 0

(* VecDeque::remove(index) keeping the element: the buffer stays pooled *)
VecDequeRemoveKeeps(bufs, index) == bufs

(* what VecDeque::remove(index) leaves in the deque (memory_pool.rs:94) *)
VecDequeRemove(bufs, index) ==
    [i \in 1..(Len(bufs) - 1) |-> IF i < index THEN bufs[i] ELSE bufs[i + 1]]

(* the pool-full test of return_packet, off by one *)
PoolIsFullOffByOne(bufs) == Len(bufs) > max_pool_size

(* buffers.len() >= self.max_pool_size (memory_pool.rs:124) *)
PoolIsFull(bufs) == Len(bufs) >= max_pool_size

PoolIdle(t) == pool_pc[t] = "idle"

(* sizes a caller asks for: below and above the standard buffer size *)
RequestSizes == {buffer_size - 1, buffer_size + 1}

(* self.buffers.lock().unwrap() at the head of get_packet, return_packet's *)
(* second half, cleanup and clear (memory_pool.rs:90, 121, 158, 170)       *)
PoolLock(t, op, arg) ==
    /\ pool_lock = NoThread
    /\ pool_lock' = t
    /\ pool_pc' = [pool_pc EXCEPT ![t] = op]
    /\ pool_arg' = [pool_arg EXCEPT ![t] = arg]
    /\ UNCHANGED <<ext_vars, m_vars, flow_vars, rt_vars, clock, buffers, buffer_size, max_pool_size,
                   created_buffers, total_allocations, total_deallocations, pool_calls>>

(* the MutexGuard is dropped when the function returns *)
PoolUnlock(t) ==
    /\ pool_pc[t] = "done"
    /\ pool_lock' = NoThread
    /\ pool_pc' = [pool_pc EXCEPT ![t] = "idle"]
    /\ pool_arg' = [pool_arg EXCEPT ![t] = None]
    /\ pool_calls' = CASE pool_arg[t] = Some("leased") ->
                             [pool_calls EXCEPT !.get_packet = @ + 1]
                       [] pool_arg[t] \in {Some("recycled"), Some("discarded")} ->
                             [pool_calls EXCEPT !.return_packet = @ + 1]
                       [] OTHER -> pool_calls
    /\ UNCHANGED <<ext_vars, m_vars, flow_vars, rt_vars, clock, buffers, buffer_size, max_pool_size,
                   created_buffers, total_allocations, total_deallocations, leased>>

(* a caller enters get_packet(size) *)
GetPacketCall(t, size) ==
    /\ PoolIdle(t)
    /\ total_allocations < MaxAllocs
    /\ PoolLock(t, "get_packet", Some(size))
    /\ UNCHANGED leased

(* MemoryPool::get_packet (memory_pool.rs:89-111), under the buffers mutex *)
get_packet(t) ==
    /\ pool_pc[t] = "get_packet"
    /\ LET size == pool_arg[t][1]
           index == Position(buffers, size)
       IN  IF index # 0
           THEN /\ buffers' = VecDequeRemove(buffers, index)
                /\ leased' = [leased EXCEPT ![t] = Append(@, resize(buffers[index], size))]
                /\ total_allocations' = total_allocations + 1
                /\ UNCHANGED created_buffers
           ELSE /\ leased' = [leased EXCEPT ![t] =
                     Append(@, resize(PacketBufferNew(IF size > buffer_size THEN size ELSE buffer_size,
                                                      created_buffers), size))]
                /\ created_buffers' = created_buffers + 1
                /\ total_allocations' = total_allocations + 1
                /\ UNCHANGED buffers
    /\ pool_pc' = [pool_pc EXCEPT ![t] = "done"]
    /\ pool_arg' = [pool_arg EXCEPT ![t] = Some("leased")]
    /\ UNCHANGED <<ext_vars, m_vars, flow_vars, rt_vars, clock, buffer_size, max_pool_size,
                   total_deallocations, pool_lock, pool_calls>>

(* the age test alone, without the test of the capacity *)
RejectedAtEntryAgeOnly(buf) == is_expired(buf, MaxAgeSecs)

(* buffer.is_expired(300 s) || buffer.data.len() < self.buffer_size        *)
(* (memory_pool.rs:116)                                                    *)
RejectedAtEntry(buf) == is_expired(buf, MaxAgeSecs) \/ buf.data_len < buffer_size

(* the holder of a leased buffer has written packet bytes into it through *)
(* data_mut (memory_pool.rs:45-48)                                         *)
data_mut(buf) == [buf EXCEPT !.dirty = TRUE, !.last_used = clock]

(* the fields of PacketBuffer are public (memory_pool.rs:17-23): a holder  *)
(* can shorten data below the pool's buffer_size                           *)
TruncatedData(buf) == [buf EXCEPT !.data_len = buffer_size - 1]

(* what a holder hands to return_packet: the leased buffer with its bytes  *)
(* in it, whole or shortened                                               *)
ReturnedBuffers(buf) == {data_mut(buf), TruncatedData(data_mut(buf))}

(* MemoryPool::return_packet (memory_pool.rs:114-119): the caller moves    *)
(* its i-th leased buffer in; an expired or undersized buffer is dropped   *)
(* without taking the mutex.                                               *)
return_packet_check(t, i) ==
    /\ PoolIdle(t)
    /\ i \in 1..Len(leased[t])
    /\ leased' = [leased EXCEPT ![t] = VecDequeRemove(@, i)]
    /\ \E buffer \in ReturnedBuffers(leased[t][i]) :
          IF RejectedAtEntry(buffer)
          THEN /\ total_deallocations' = total_deallocations + 1
               /\ pool_calls' = [pool_calls EXCEPT !.return_packet = @ + 1]
               /\ UNCHANGED <<pool_pc, pool_arg>>
          ELSE /\ pool_pc' = [pool_pc EXCEPT ![t] = "return_wait"]
               /\ pool_arg' = [pool_arg EXCEPT ![t] = Some(buffer)]
               /\ UNCHANGED <<total_deallocations, pool_calls>>
    /\ UNCHANGED <<ext_vars, m_vars, flow_vars, rt_vars, clock, buffers, buffer_size, max_pool_size,
                   created_buffers, total_allocations, pool_lock>>

(* the reset without the zero fill *)
ResetForReuseNoFill(buf) == [buf EXCEPT !.size = buffer_size, !.last_used = clock]

(* the reset of a buffer for reuse (memory_pool.rs:129-132): size back to  *)
(* buffer_size, data.fill(0), last_used = now                              *)
ResetForReuse(buf) ==
    [buf EXCEPT !.size = buffer_size, !.dirty = FALSE, !.last_used = clock]

(* memory_pool.rs:121 *)
ReturnPacketLock(t) ==
    /\ pool_pc[t] = "return_wait"
    /\ PoolLock(t, "return_packet", pool_arg[t])
    /\ UNCHANGED leased

(* return_packet that does not count the buffer it drops at a full pool *)
return_packet_drop_uncounted(t) ==
    /\ pool_pc[t] = "return_packet"
    /\ IF PoolIsFull(buffers)
       THEN /\ pool_arg' = [pool_arg EXCEPT ![t] = Some("discarded")]
            /\ UNCHANGED <<buffers, total_deallocations>>
       ELSE /\ buffers' = Append(buffers, ResetForReuse(pool_arg[t][1]))
            /\ total_deallocations' = total_deallocations + 1
            /\ pool_arg' = [pool_arg EXCEPT ![t] = Some("recycled")]
    /\ pool_pc' = [pool_pc EXCEPT ![t] = "done"]
    /\ UNCHANGED <<ext_vars, m_vars, flow_vars, rt_vars, clock, buffer_size, max_pool_size,
                   created_buffers, total_allocations, pool_lock, leased, pool_calls>>

(* MemoryPool::return_packet (memory_pool.rs:121-136), under the mutex *)
return_packet(t) ==
    /\ pool_pc[t] = "return_packet"
    /\ IF PoolIsFull(buffers)
       THEN /\ total_deallocations' = total_deallocations + 1
            /\ pool_arg' = [pool_arg EXCEPT ![t] = Some("discarded")]
            /\ UNCHANGED buffers
       ELSE /\ buffers' = Append(buffers, ResetForReuse(pool_arg[t][1]))
            /\ total_deallocations' = total_deallocations + 1
            /\ pool_arg' = [pool_arg EXCEPT ![t] = Some("recycled")]
    /\ pool_pc' = [pool_pc EXCEPT ![t] = "done"]
    /\ UNCHANGED <<ext_vars, m_vars, flow_vars, rt_vars, clock, buffer_size, max_pool_size,
                   created_buffers, total_allocations, pool_lock, leased, pool_calls>>

CleanupCall(t) ==
    /\ PoolIdle(t)
    /\ buffers # <<>>
    /\ PoolLock(t, "cleanup", None)
    /\ UNCHANGED leased

(* the closure of buffers.retain (memory_pool.rs:163-165) *)
KeptByCleanup(buf) == ~is_expired(buf, MaxAgeSecs) /\ ~is_stale(buf, MaxIdleSecs)

(* MemoryPool::cleanup (memory_pool.rs:157-166) *)
cleanup(t) ==
    /\ pool_pc[t] = "cleanup"
    /\ buffers' = SelectSeq(buffers, KeptByCleanup)
    /\ pool_pc' = [pool_pc EXCEPT ![t] = "done"]
    /\ UNCHANGED <<ext_vars, m_vars, flow_vars, rt_vars, clock, buffer_size, max_pool_size, created_buffers,
                   total_allocations, total_deallocations, pool_lock, pool_arg, leased,
                   pool_calls>>

ClearCall(t) ==
    /\ PoolIdle(t)
    /\ buffers # <<>>
    /\ PoolLock(t, "clear", None)
    /\ UNCHANGED leased

(* MemoryPool::clear (memory_pool.rs:169-172) *)
clear(t) ==
    /\ pool_pc[t] = "clear"
    /\ buffers' = <<>>
    /\ pool_pc' = [pool_pc EXCEPT ![t] = "done"]
    /\ UNCHANGED <<ext_vars, m_vars, flow_vars, rt_vars, clock, buffer_size, max_pool_size, created_buffers,
                   total_allocations, total_deallocations, pool_lock, pool_arg, leased,
                   pool_calls>>

(* the instants the pool is observed at: the start, the first second at   *)
(* which a buffer of the start is stale, the first at which it is expired  *)
PoolInstants == {1, 1 + MaxIdleSecs + 1, 1 + MaxAgeSecs + 1}

(* time passes *)
PoolTick ==
    /\ \E c \in PoolInstants : c > clock /\ clock' = c
    /\ UNCHANGED <<rt_vars, pool_vars, flow_vars, m_vars, ext_vars>>

(* MemoryPool::new (memory_pool.rs:77-86) *)
PoolInit ==
    /\ buffers = <<>>
    /\ buffer_size = BufferSizeCfg
    /\ max_pool_size = MaxPoolSizeCfg
    /\ created_buffers = 0
    /\ total_allocations = 0
    /\ total_deallocations = 0
    /\ pool_lock = NoThread
    /\ pool_pc = [t \in Threads |-> "idle"]
    /\ pool_arg = [t \in Threads |-> None]
    /\ leased = [t \in Threads |-> <<>>]
    /\ pool_calls = [get_packet |-> 0, return_packet |-> 0]

PoolNext ==
    \/ \E t \in Threads, size \in RequestSizes : GetPacketCall(t, size)
    \/ \E t \in Threads : get_packet(t)
    \/ \E t \in Threads : \E i \in 1..Len(leased[t]) : return_packet_check(t, i)
    \/ \E t \in Threads : ReturnPacketLock(t)
    \/ \E t \in Threads : return_packet(t)
    \/ \E t \in Threads : CleanupCall(t)
    \/ \E t \in Threads : cleanup(t)
    \/ \E t \in Threads : ClearCall(t)
    \/ \E t \in Threads : clear(t)
    \/ \E t \in Threads : PoolUnlock(t)
    \/ PoolTick

----------------------------------------------------------------------------
(* AnalyticsEngine (analytics.rs): process_packet and the flow table *)

(* AnalyticsEngine::generate_flow_id (analytics.rs:269-278) *)
generate_flow_id(source_ip, destination_ip, source_port, destination_port, protocol) ==
    source_ip \o ":" \o destination_ip \o ":" \o ToString(source_port) \o ":"
        \o ToString(destination_port) \o ":" \o ToString(protocol)

(* AnalyticsEngine::detect_application (analytics.rs:281-322) *)
detect_application(protocol, port) ==
    CASE protocol = 6 ->
            (CASE port = 80 -> "HTTP" [] port = 443 -> "HTTPS" [] port = 22 -> "SSH"
               [] port = 23 -> "Telnet" [] port = 25 -> "SMTP" [] port = 53 -> "DNS"
               [] port = 110 -> "POP3" [] port = 143 -> "IMAP" [] port = 993 -> "IMAPS"
               [] port = 995 -> "POP3S" [] port = 3389 -> "RDP" [] port = 5900 -> "VNC"
               [] OTHER -> "TCP")
      [] protocol = 17 ->
            (CASE port = 53 -> "DNS" [] port = 67 -> "DHCP" [] port = 68 -> "DHCP"
               [] port = 123 -> "NTP" [] port = 161 -> "SNMP" [] port = 162 -> "SNMP"
               [] port = 500 -> "IKE" [] port = 4500 -> "IPsec"
               [] OTHER -> "UDP")
      [] protocol = 1 -> "ICMP"
      [] protocol = 2 -> "IGMP"
      [] protocol = 41 -> "IPv6"
      [] protocol = 47 -> "GRE"
      [] protocol = 50 -> "ESP"
      [] protocol = 51 -> "AH"
      [] protocol = 89 -> "OSPF"
      [] OTHER -> "Unknown"

(* AnalyticsEngine::classify_traffic (analytics.rs:325-345) *)
classify_traffic(dscp, protocol) ==
    CASE dscp = 0 -> "Best Effort"
      [] dscp = 10 -> "AF11" [] dscp = 12 -> "AF12" [] dscp = 14 -> "AF13"
      [] dscp = 18 -> "AF21" [] dscp = 20 -> "AF22" [] dscp = 22 -> "AF23"
      [] dscp = 26 -> "AF31" [] dscp = 28 -> "AF32" [] dscp = 30 -> "AF33"
      [] dscp = 34 -> "AF41" [] dscp = 36 -> "AF42" [] dscp = 38 -> "AF43"
      [] dscp = 46 -> "EF" [] dscp = 48 -> "CS6" [] dscp = 56 -> "CS7"
      [] OTHER -> "Unknown"

(* the arguments of a process_packet call *)
PacketArgs ==
    [source_ip : {"192.168.1.1"}, destination_ip : {"192.168.1.2"},
     source_port : {80}, destination_port : {8080, 443},
     protocol : {6}, packet_size : {64, 1500}, dscp : {0}, is_encrypted : {FALSE}]

NoPacket == [source_ip |-> "", destination_ip |-> "", source_port |-> 0,
             destination_port |-> 0, protocol |-> 0, packet_size |-> 0,
             dscp |-> 0, is_encrypted |-> FALSE]

(* two calls between IPv6 addresses: the addresses differ, their           *)
(* concatenations with ":" do not                                          *)
Ipv6PacketArgs ==
    {[source_ip |-> "::1:2", destination_ip |-> "3::", source_port |-> 80,
      destination_port |-> 443, protocol |-> 6, packet_size |-> 64, dscp |-> 0,
      is_encrypted |-> FALSE],
     [source_ip |-> "::1", destination_ip |-> "2:3::", source_port |-> 80,
      destination_port |-> 443, protocol |-> 6, packet_size |-> 64, dscp |-> 0,
      is_encrypted |-> FALSE]}

(* the 5-tuple of a call's arguments *)
FiveTuple(pkt) ==
    <<pkt.source_ip, pkt.destination_ip, pkt.source_port, pkt.destination_port, pkt.protocol>>

FiveTuples == {FiveTuple(pkt) : pkt \in PacketArgs \cup Ipv6PacketArgs}

(* process_packet up to the lock (analytics.rs:114-115): the flow id and   *)
(* the time are taken before the write lock is asked for                  *)
ProcessPacketCall(t, pkt) ==
    /\ flow_pc[t] = "idle"
    /\ flow_calls.started < MaxPackets
    /\ flow_calls' = [flow_calls EXCEPT !.started = @ + 1]
    /\ flow_pc' = [flow_pc EXCEPT ![t] = "lock"]
    /\ flow_pkt' = [flow_pkt EXCEPT ![t] = pkt]
    /\ flow_id' = [flow_id EXCEPT ![t] =
            generate_flow_id(pkt.source_ip, pkt.destination_ip, pkt.source_port,
                             pkt.destination_port, pkt.protocol)]
    /\ flow_now' = [flow_now EXCEPT ![t] = clock]
    /\ UNCHANGED <<ext_vars, m_vars, rt_vars, pool_vars, clock, flow_max_age, flow_evicted, flow_table, flow_lock, flow_found>>

(* self.flow_table.write().await (analytics.rs:118) *)
FlowWriteLock(t) ==
    /\ flow_pc[t] = "lock"
    /\ flow_lock = NoThread
    /\ flow_lock' = t
    /\ flow_pc' = [flow_pc EXCEPT ![t] = "get_mut"]
    /\ UNCHANGED <<ext_vars, m_vars, rt_vars, pool_vars, clock, flow_max_age, flow_evicted, flow_table, flow_pkt, flow_id, flow_now,
                   flow_found, flow_calls>>

(* the lookup with the write guard dropped after it: check, then act      *)
(* without the lock                                                        *)
process_packet_get_mut_unlocked(t) ==
    /\ flow_pc[t] = "get_mut"
    /\ flow_found' = [flow_found EXCEPT ![t] = flow_id[t] \in DOMAIN flow_table]
    /\ flow_pc' = [flow_pc EXCEPT ![t] = "update"]
    /\ flow_lock' = NoThread
    /\ UNCHANGED <<ext_vars, m_vars, rt_vars, pool_vars, clock, flow_max_age, flow_evicted, flow_table, flow_pkt, flow_id, flow_now,
                   flow_calls>>

(* flows.get_mut(&flow_id) (analytics.rs:119): which branch is taken *)
process_packet_get_mut(t) ==
    /\ flow_pc[t] = "get_mut"
    /\ flow_found' = [flow_found EXCEPT ![t] = flow_id[t] \in DOMAIN flow_table]
    /\ flow_pc' = [flow_pc EXCEPT ![t] = "update"]
    /\ UNCHANGED <<ext_vars, m_vars, rt_vars, pool_vars, clock, flow_max_age, flow_evicted, flow_table, flow_lock, flow_pkt, flow_id,
                   flow_now, flow_calls>>

(* the branch of process_packet (analytics.rs:119-143): the flow is        *)
(* updated in place or inserted, the guard is dropped, Ok(()) is returned  *)
process_packet(t) ==
    /\ flow_pc[t] = "update"
    /\ LET pkt == flow_pkt[t] IN
       /\ IF flow_found[t] /\ flow_id[t] \in DOMAIN flow_table
          THEN flow_table' = [flow_table EXCEPT
                    ![flow_id[t]].packet_count = @ + 1,
                    ![flow_id[t]].byte_count = @ + pkt.packet_size,
                    ![flow_id[t]].last_seen = flow_now[t]]
          ELSE flow_table' = MapInsert(flow_table, flow_id[t],
                    [flow_id |-> flow_id[t],
                     source_ip |-> pkt.source_ip,
                     destination_ip |-> pkt.destination_ip,
                     source_port |-> pkt.source_port,
                     destination_port |-> pkt.destination_port,
                     protocol |-> pkt.protocol,
                     packet_count |-> 1,
                     byte_count |-> pkt.packet_size,
                     first_seen |-> flow_now[t],
                     last_seen |-> flow_now[t],
                     application |-> detect_application(pkt.protocol, pkt.destination_port),
                     dscp |-> pkt.dscp,
                     is_encrypted |-> pkt.is_encrypted,
                     traffic_class |-> classify_traffic(pkt.dscp, pkt.protocol)])
       /\ flow_calls' = [flow_calls EXCEPT
                !.returned[FiveTuple(pkt)] = [calls |-> @.calls + 1,
                                              bytes |-> @.bytes + pkt.packet_size]]
    /\ flow_lock' = IF flow_lock = t THEN NoThread ELSE flow_lock
    /\ flow_pc' = [flow_pc EXCEPT ![t] = "idle"]
    /\ flow_pkt' = [flow_pkt EXCEPT ![t] = NoPacket]
    /\ flow_id' = [flow_id EXCEPT ![t] = ""]
    /\ flow_found' = [flow_found EXCEPT ![t] = FALSE]
    /\ flow_now' = [flow_now EXCEPT ![t] = 0]
    /\ UNCHANGED <<ext_vars, m_vars, rt_vars, pool_vars, clock, flow_max_age, flow_evicted>>

(* AnalyticsEngine::new (analytics.rs:92-100) *)
FlowInit ==
    /\ flow_table = EmptyMap
    /\ flow_lock = NoThread
    /\ flow_pc = [t \in Threads |-> "idle"]
    /\ flow_pkt = [t \in Threads |-> NoPacket]
    /\ flow_id = [t \in Threads |-> ""]
    /\ flow_now = [t \in Threads |-> 0]
    /\ flow_found = [t \in Threads |-> FALSE]
    /\ flow_max_age = [t \in Threads |-> 0]
    /\ flow_evicted = [t \in Threads |-> {}]
    /\ flow_calls = [started |-> 0,
                     returned |-> [k \in FiveTuples |-> [calls |-> 0, bytes |-> 0]]]

FlowNext ==
    \/ \E t \in Threads, pkt \in PacketArgs : ProcessPacketCall(t, pkt)
    \/ \E t \in Threads : FlowWriteLock(t)
    \/ \E t \in Threads : process_packet_get_mut(t)
    \/ \E t \in Threads : process_packet(t)

(* max_age arguments of cleanup_old_flows, in the clock's unit *)
MaxAges == {0, 1}

(* now.duration_since(flow.last_seen): zero when last_seen is later *)
DurationSince(now, earlier) == IF now >= earlier THEN now - earlier ELSE 0

(* the retain closure with the age taken from first_seen *)
FlowRetainedByFirstSeen(flow, now, max_age) ==
    DurationSince(now, flow.first_seen) < max_age

(* the closure of flows.retain (analytics.rs:265) *)
FlowRetained(flow, now, max_age) ==
    DurationSince(now, flow.last_seen) < max_age

(* cleanup_old_flows(max_age) is entered and gets the write lock           *)
(* (analytics.rs:262-263)                                                  *)
CleanupOldFlowsCall(t, max_age) ==
    /\ flow_pc[t] = "idle"
    /\ flow_lock = NoThread
    /\ flow_lock' = t
    /\ flow_pc' = [flow_pc EXCEPT ![t] = "cleanup"]
    /\ flow_max_age' = [flow_max_age EXCEPT ![t] = max_age]
    /\ UNCHANGED <<ext_vars, m_vars, rt_vars, pool_vars, clock, flow_table, flow_pkt, flow_id,
                   flow_now, flow_found, flow_calls, flow_evicted>>

(* Instant::now() and flows.retain (analytics.rs:264-265) *)
cleanup_old_flows(t) ==
    /\ flow_pc[t] = "cleanup"
    /\ LET kept == {k \in DOMAIN flow_table :
                        FlowRetained(flow_table[k], clock, flow_max_age[t])}
       IN  /\ flow_table' = [k \in kept |-> flow_table[k]]
           /\ flow_evicted' = [flow_evicted EXCEPT ![t] = DOMAIN flow_table \ kept]
    /\ flow_now' = [flow_now EXCEPT ![t] = clock]
    /\ flow_pc' = [flow_pc EXCEPT ![t] = "cleaned"]
    /\ UNCHANGED <<ext_vars, m_vars, rt_vars, pool_vars, clock, flow_lock, flow_pkt, flow_id,
                   flow_found, flow_calls, flow_max_age>>

(* cleanup_old_flows returns: the write guard is dropped (analytics.rs:266) *)
CleanupOldFlowsReturn(t) ==
    /\ flow_pc[t] = "cleaned"
    /\ flow_lock' = NoThread
    /\ flow_pc' = [flow_pc EXCEPT ![t] = "idle"]
    /\ flow_max_age' = [flow_max_age EXCEPT ![t] = 0]
    /\ flow_evicted' = [flow_evicted EXCEPT ![t] = {}]
    /\ flow_now' = [flow_now EXCEPT ![t] = 0]
    /\ UNCHANGED <<ext_vars, m_vars, rt_vars, pool_vars, clock, flow_table, flow_pkt, flow_id,
                   flow_found, flow_calls>>

(* the packets passed while cleanups run: an IPv4 flow and the IPv6 pair *)
FlowTablePackets ==
    {pkt \in PacketArgs : pkt.destination_port = 8080 /\ pkt.packet_size = 1500}
        \cup Ipv6PacketArgs

(* process_packet, cleanup_old_flows, and time *)
FlowTableNext ==
    \/ \E t \in Threads, pkt \in FlowTablePackets : ProcessPacketCall(t, pkt)
    \/ \E t \in Threads : FlowWriteLock(t)
    \/ \E t \in Threads : process_packet_get_mut(t)
    \/ \E t \in Threads : process_packet(t)
    \/ \E t \in Threads, max_age \in MaxAges : CleanupOldFlowsCall(t, max_age)
    \/ \E t \in Threads : cleanup_old_flows(t)
    \/ \E t \in Threads : CleanupOldFlowsReturn(t)
    \/ Tick

----------------------------------------------------------------------------
(* MetricsCollector (metrics.rs). Every step below is one atomic           *)
(* operation on one AtomicU64; a record_* call is the sequence of its      *)
(* steps.                                                                  *)

others == <<clock, rt_vars, pool_vars, flow_vars, ext_vars>>

AtomicsFrame(changed) ==
    /\ (changed # "packets_processed" => UNCHANGED packets_processed)
    /\ (changed # "bytes_processed" => UNCHANGED bytes_processed)
    /\ (changed # "packets_dropped" => UNCHANGED packets_dropped)
    /\ (changed # "packets_forwarded" => UNCHANGED packets_forwarded)
    /\ (changed # "packets_routed" => UNCHANGED packets_routed)
    /\ (changed # "errors" => UNCHANGED errors)
    /\ (changed # "latency_sum" => UNCHANGED latency_sum)
    /\ (changed # "latency_count" => UNCHANGED latency_count)
    /\ (changed # "max_latency" => UNCHANGED max_latency)
    /\ (changed # "min_latency" => UNCHANGED min_latency)

MFrame(changed) ==
    /\ AtomicsFrame(changed)
    /\ UNCHANGED <<others, snap_pc, snap, prev_snap, snap_lat_done, reset_pc, reset_calls>>

RecordsStarted ==
    m_calls.processed + m_calls.dropped + m_calls.forwarded + m_calls.routed
        + m_calls.errors + m_calls.latency
        + Cardinality({t \in Threads : m_pc[t] # "idle"})

MIdle(t) == m_pc[t] = "idle" /\ RecordsStarted < MaxRecords /\ reset_pc = 0

MReturn(t, call) ==
    /\ m_pc' = [m_pc EXCEPT ![t] = "idle"]
    /\ m_arg' = [m_arg EXCEPT ![t] = 0]
    /\ m_cur' = [m_cur EXCEPT ![t] = 0]
    /\ m_calls' = [m_calls EXCEPT ![call] = @ + 1]

(* record_packet_processed, first fetch_add (metrics.rs:86) *)
record_packet_processed(t, size) ==
    /\ MIdle(t)
    /\ packets_processed' = packets_processed + 1
    /\ m_pc' = [m_pc EXCEPT ![t] = "bytes"]
    /\ m_arg' = [m_arg EXCEPT ![t] = size]
    /\ UNCHANGED <<m_cur, m_calls, lat_started, lat_done>>
    /\ MFrame("packets_processed")

(* the byte counter set to the packet's size instead of added to *)
record_packet_processed_store(t) ==
    /\ m_pc[t] = "bytes"
    /\ bytes_processed' = m_arg[t]
    /\ m_calls' = [m_calls EXCEPT !.bytes = @ + m_arg[t], !.processed = @ + 1]
    /\ m_pc' = [m_pc EXCEPT ![t] = "idle"]
    /\ m_arg' = [m_arg EXCEPT ![t] = 0]
    /\ UNCHANGED <<m_cur, lat_started, lat_done>>
    /\ MFrame("bytes_processed")

(* record_packet_processed, second fetch_add (metrics.rs:87) *)
record_packet_processed_bytes(t) ==
    /\ m_pc[t] = "bytes"
    /\ bytes_processed' = bytes_processed + m_arg[t]
    /\ m_calls' = [m_calls EXCEPT !.bytes = @ + m_arg[t], !.processed = @ + 1]
    /\ m_pc' = [m_pc EXCEPT ![t] = "idle"]
    /\ m_arg' = [m_arg EXCEPT ![t] = 0]
    /\ UNCHANGED <<m_cur, lat_started, lat_done>>
    /\ MFrame("bytes_processed")

(* packets_dropped incremented by a load and a later store instead of one  *)
(* fetch_add                                                               *)
record_packet_dropped_load_store(t) ==
    /\ \/ /\ MIdle(t)
          /\ m_pc' = [m_pc EXCEPT ![t] = "dropped_store"]
          /\ m_cur' = [m_cur EXCEPT ![t] = packets_dropped]
          /\ UNCHANGED <<packets_dropped, m_arg, m_calls>>
       \/ /\ m_pc[t] = "dropped_store"
          /\ packets_dropped' = m_cur[t] + 1
          /\ MReturn(t, "dropped")
    /\ UNCHANGED <<lat_started, lat_done>>
    /\ MFrame("packets_dropped")

(* MetricsCollector::record_packet_dropped (metrics.rs:91-93) *)
record_packet_dropped(t) ==
    /\ MIdle(t)
    /\ packets_dropped' = packets_dropped + 1
    /\ MReturn(t, "dropped")
    /\ UNCHANGED <<lat_started, lat_done>>
    /\ MFrame("packets_dropped")

(* MetricsCollector::record_packet_forwarded (metrics.rs:96-98) *)
record_packet_forwarded(t) ==
    /\ MIdle(t)
    /\ packets_forwarded' = packets_forwarded + 1
    /\ MReturn(t, "forwarded")
    /\ UNCHANGED <<lat_started, lat_done>>
    /\ MFrame("packets_forwarded")

(* MetricsCollector::record_packet_routed (metrics.rs:101-103) *)
record_packet_routed(t) ==
    /\ MIdle(t)
    /\ packets_routed' = packets_routed + 1
    /\ MReturn(t, "routed")
    /\ UNCHANGED <<lat_started, lat_done>>
    /\ MFrame("packets_routed")

(* MetricsCollector::record_error (metrics.rs:106-108) *)
record_error(t) ==
    /\ MIdle(t)
    /\ errors' = errors + 1
    /\ MReturn(t, "errors")
    /\ UNCHANGED <<lat_started, lat_done>>
    /\ MFrame("errors")

(* record_latency, latency_sum.fetch_add (metrics.rs:112) *)
record_latency(t, latency_ns) ==
    /\ MIdle(t)
    /\ latency_sum' = latency_sum + latency_ns
    /\ m_pc' = [m_pc EXCEPT ![t] = "count"]
    /\ m_arg' = [m_arg EXCEPT ![t] = latency_ns]
    /\ lat_started' = lat_started \cup {latency_ns}
    /\ UNCHANGED <<m_cur, m_calls, lat_done>>
    /\ MFrame("latency_sum")

(* record_latency, latency_count.fetch_add (metrics.rs:113) *)
record_latency_count(t) ==
    /\ m_pc[t] = "count"
    /\ latency_count' = latency_count + 1
    /\ m_pc' = [m_pc EXCEPT ![t] = "max_load"]
    /\ UNCHANGED <<m_arg, m_cur, m_calls, lat_started, lat_done>>
    /\ MFrame("latency_count")

(* the max loop with the load hoisted out of the loop: the retry compares *)
(* the fresh value and exchanges against the value of the first load      *)
record_latency_max_load_once(t) ==
    /\ m_pc[t] = "max_load"
    /\ m_pc' = [m_pc EXCEPT ![t] = IF m_arg[t] <= max_latency THEN "min_load" ELSE "max_cas"]
    /\ UNCHANGED <<m_arg, m_cur, m_calls, lat_started, lat_done>>
    /\ MFrame("")

(* the max loop: load and compare (metrics.rs:117-120) *)
record_latency_max_load(t) ==
    /\ m_pc[t] = "max_load"
    /\ m_cur' = [m_cur EXCEPT ![t] = max_latency]
    /\ m_pc' = [m_pc EXCEPT ![t] = IF m_arg[t] <= max_latency THEN "min_load" ELSE "max_cas"]
    /\ UNCHANGED <<m_arg, m_calls, lat_started, lat_done>>
    /\ MFrame("")

(* the max loop with a plain store in place of the compare-exchange *)
record_latency_max_store(t) ==
    /\ m_pc[t] = "max_cas"
    /\ max_latency' = m_arg[t]
    /\ m_pc' = [m_pc EXCEPT ![t] = "min_load"]
    /\ UNCHANGED <<m_arg, m_cur, m_calls, lat_started, lat_done>>
    /\ MFrame("max_latency")

(* the max loop: compare_exchange_weak(current_max, latency_ns)            *)
(* (metrics.rs:121-128); it may fail though the value is current_max       *)
record_latency_max_cas(t) ==
    /\ m_pc[t] = "max_cas"
    /\ \/ /\ max_latency = m_cur[t]
          /\ max_latency' = m_arg[t]
          /\ m_pc' = [m_pc EXCEPT ![t] = "min_load"]
       \/ /\ UNCHANGED max_latency
          /\ m_pc' = [m_pc EXCEPT ![t] = "max_load"]
    /\ UNCHANGED <<m_arg, m_cur, m_calls, lat_started, lat_done>>
    /\ MFrame("max_latency")

(* the min loop (metrics.rs:132-145), one atomic operation per step: the   *)
(* load and its test, after which the call returns when the loop breaks,   *)
(* or the compare_exchange_weak(current_min, latency_ns), which may fail   *)
(* though the value is current_min                                         *)
record_latency_min(t) ==
    /\ m_pc[t] \in {"min_load", "min_cas"}
    /\ IF m_pc[t] = "min_load"
       THEN /\ IF min_latency = 0 \/ m_arg[t] >= min_latency
               THEN /\ MReturn(t, "latency")
                    /\ lat_done' = lat_done \cup {m_arg[t]}
               ELSE /\ m_cur' = [m_cur EXCEPT ![t] = min_latency]
                    /\ m_pc' = [m_pc EXCEPT ![t] = "min_cas"]
                    /\ UNCHANGED <<m_arg, m_calls, lat_done>>
            /\ UNCHANGED min_latency
       ELSE \/ /\ min_latency = m_cur[t]
               /\ min_latency' = m_arg[t]
               /\ MReturn(t, "latency")
               /\ lat_done' = lat_done \cup {m_arg[t]}
            \/ /\ UNCHANGED <<min_latency, m_arg, m_cur, m_calls, lat_done>>
               /\ m_pc' = [m_pc EXCEPT ![t] = "min_load"]
    /\ UNCHANGED lat_started
    /\ MFrame("min_latency")

(* Metrics::default (metrics.rs:27-49), the fields get_metrics loads *)
MetricsDefault ==
    [packets_processed |-> 0, bytes_processed |-> 0, packets_dropped |-> 0,
     packets_forwarded |-> 0, packets_routed |-> 0, errors |-> 0,
     average_latency_ns |-> 0, max_latency_ns |-> 0, min_latency_ns |-> 0]

(* MetricsCollector::get_metrics (metrics.rs:149-203): its loads, in       *)
(* order, one step each; the Metrics value is complete at snap_pc = 10.    *)
(* snap.average_latency_ns holds latency_sum between the loads of the sum  *)
(* and of the count.                                                       *)
get_metrics ==
    /\ snap_pc' = IF snap_pc = 10 THEN 1 ELSE snap_pc + 1
    /\ snap_lat_done' = IF snap_pc \in {0, 10} THEN lat_done ELSE snap_lat_done
    /\ prev_snap' = IF snap_pc = 10
                    THEN Some([packets_processed |-> snap.packets_processed,
                               bytes_processed |-> snap.bytes_processed,
                               packets_dropped |-> snap.packets_dropped])
                    ELSE prev_snap
    /\ snap' =
         CASE snap_pc \in {0, 10} ->
                 [MetricsDefault EXCEPT !.packets_processed = packets_processed]
           [] snap_pc = 1 -> [snap EXCEPT !.bytes_processed = bytes_processed]
           [] snap_pc = 2 -> [snap EXCEPT !.packets_dropped = packets_dropped]
           [] snap_pc = 3 -> [snap EXCEPT !.packets_forwarded = packets_forwarded]
           [] snap_pc = 4 -> [snap EXCEPT !.packets_routed = packets_routed]
           [] snap_pc = 5 -> [snap EXCEPT !.errors = errors]
           [] snap_pc = 6 -> [snap EXCEPT !.average_latency_ns = latency_sum]
           [] snap_pc = 7 -> [snap EXCEPT !.average_latency_ns =
                                 IF latency_count > 0 THEN @ \div latency_count ELSE 0]
           [] snap_pc = 8 -> [snap EXCEPT !.max_latency_ns = max_latency]
           [] snap_pc = 9 -> [snap EXCEPT !.min_latency_ns = min_latency]
    /\ UNCHANGED <<others, atomics, m_pc, m_arg, m_cur, m_calls, lat_started, lat_done,
                   reset_pc, reset_calls>>

(* the atomics in the order reset stores to them (metrics.rs:207-216) *)
ResetFields ==
    <<"packets_processed", "bytes_processed", "packets_dropped", "packets_forwarded",
      "packets_routed", "errors", "latency_sum", "latency_count", "max_latency", "min_latency">>

(* a reset that leaves the maximum latency as it is *)
ResetStoreKeepsMax(field, old) == IF field = "max_latency" THEN old ELSE 0

(* the value reset stores: store(0, Ordering::Relaxed) *)
ResetStore(field, old) == 0

(* MetricsCollector::reset (metrics.rs:206-217), one store per step; it is *)
(* called while no record_* call is running, and none starts before it     *)
(* returns (MIdle)                                                         *)
reset ==
    /\ reset_pc = 0 => \A t \in Threads : m_pc[t] = "idle"
    /\ LET field == ResetFields[reset_pc + 1] IN
        /\ (field = "packets_processed" =>
               packets_processed' = ResetStore(field, packets_processed))
        /\ (field = "bytes_processed" => bytes_processed' = ResetStore(field, bytes_processed))
        /\ (field = "packets_dropped" => packets_dropped' = ResetStore(field, packets_dropped))
        /\ (field = "packets_forwarded" =>
               packets_forwarded' = ResetStore(field, packets_forwarded))
        /\ (field = "packets_routed" => packets_routed' = ResetStore(field, packets_routed))
        /\ (field = "errors" => errors' = ResetStore(field, errors))
        /\ (field = "latency_sum" => latency_sum' = ResetStore(field, latency_sum))
        /\ (field = "latency_count" => latency_count' = ResetStore(field, latency_count))
        /\ (field = "max_latency" => max_latency' = ResetStore(field, max_latency))
        /\ (field = "min_latency" => min_latency' = ResetStore(field, min_latency))
        /\ AtomicsFrame(field)
    /\ reset_pc' = IF reset_pc + 1 = Len(ResetFields) THEN 0 ELSE reset_pc + 1
    /\ reset_calls' = IF reset_pc + 1 = Len(ResetFields) THEN Some(m_calls) ELSE reset_calls
    /\ UNCHANGED <<others, m_pc, m_arg, m_cur, m_calls, lat_started, lat_done,
                   snap_pc, snap, prev_snap, snap_lat_done>>

(* the Metrics value of a get_metrics call (metrics.rs:149-203) during *)
(* which no atomic changes                                             *)
MetricsNow ==
    [packets_processed |-> packets_processed, bytes_processed |-> bytes_processed,
     packets_dropped |-> packets_dropped, packets_forwarded |-> packets_forwarded,
     packets_routed |-> packets_routed, errors |-> errors,
     average_latency_ns |-> IF latency_count > 0 THEN latency_sum \div latency_count ELSE 0,
     max_latency_ns |-> max_latency, min_latency_ns |-> min_latency]

PacketSizes == {1000, 1500}
Latencies == {1000, 2000}

(* MetricsCollector::new (metrics.rs:68-82) *)
MetricsInit ==
    /\ packets_processed = 0
    /\ bytes_processed = 0
    /\ packets_dropped = 0
    /\ packets_forwarded = 0
    /\ packets_routed = 0
    /\ errors = 0
    /\ latency_sum = 0
    /\ latency_count = 0
    /\ max_latency = 0
    /\ min_latency = 0
    /\ m_pc = [t \in Threads |-> "idle"]
    /\ m_arg = [t \in Threads |-> 0]
    /\ m_cur = [t \in Threads |-> 0]
    /\ snap_pc = 0
    /\ snap = MetricsDefault
    /\ prev_snap = None
    /\ m_calls = [processed |-> 0, bytes |-> 0, dropped |-> 0, forwarded |-> 0,
                  routed |-> 0, errors |-> 0, latency |-> 0]
    /\ lat_started = {}
    /\ lat_done = {}
    /\ snap_lat_done = {}
    /\ reset_pc = 0
    /\ reset_calls = None

CountersNext ==
    \/ \E t \in Threads, size \in PacketSizes : record_packet_processed(t, size)
    \/ \E t \in Threads : record_packet_processed_bytes(t)
    \/ \E t \in Threads : record_packet_dropped(t)
    \/ \E t \in Threads : record_packet_forwarded(t)
    \/ \E t \in Threads : record_packet_routed(t)
    \/ \E t \in Threads : record_error(t)
    \/ get_metrics

ResetNext ==
    \/ \E t \in Threads, size \in PacketSizes : record_packet_processed(t, size)
    \/ \E t \in Threads : record_packet_processed_bytes(t)
    \/ \E t \in Threads : record_packet_dropped(t)
    \/ \E t \in Threads : record_error(t)
    \/ \E t \in Threads, latency_ns \in Latencies : record_latency(t, latency_ns)
    \/ \E t \in Threads : record_latency_count(t)
    \/ \E t \in Threads : record_latency_max_load(t)
    \/ \E t \in Threads : record_latency_max_cas(t)
    \/ \E t \in Threads : record_latency_min(t)
    \/ reset

LatencyNext ==
    \/ \E t \in Threads, latency_ns \in Latencies : record_latency(t, latency_ns)
    \/ \E t \in Threads : record_latency_count(t)
    \/ \E t \in Threads : record_latency_max_load(t)
    \/ \E t \in Threads : record_latency_max_cas(t)
    \/ \E t \in Threads : record_latency_min(t)
    \/ get_metrics

----------------------------------------------------------------------------
(* Frames: the byte buffers the capture collaborator delivers               *)

Zeros(n) == [i \in 1..n |-> 0]

(* an Ethernet header: destination and source MAC, then the ethertype *)
EthernetHeader(ethertype) == Zeros(12) \o <<ethertype \div 256, ethertype % 256>>

(* a 20-byte IPv4 header with the given version/IHL byte, TOS byte, *)
(* protocol number and destination address                            *)
Ipv4Header(version_ihl, tos, protocol, destination) ==
    <<version_ihl, tos, 0, 40, 0, 0, 0, 0, 64, protocol, 0, 0, 172, 16, 0, 9>> \o destination

(* a 40-byte IPv6 header with the given first byte, next header and *)
(* destination address                                               *)
Ipv6Header(version_byte, next_header, destination) ==
    <<version_byte, 0, 0, 0, 0, 20, next_header, 64>> \o Zeros(15) \o <<9>> \o destination

(* the first four bytes of a TCP or UDP header *)
Ports(source, destination) ==
    <<source \div 256, source % 256, destination \div 256, destination % 256>>

Ipv6Routed == <<32, 1, 13, 184, 0, 0, 0, 0, 0, 0, 0, 0, 0, 0, 0, 5>>
Ipv6Local == <<254, 128, 0, 0, 0, 0, 0, 0, 0, 0, 0, 0, 0, 0, 0, 1>>
Ipv6Unrouted == <<32, 1, 222, 173, 0, 0, 0, 0, 0, 0, 0, 0, 0, 0, 0, 5>>

(* the frames the model delivers, by name *)
FrameBytes(name) ==
    CASE name = "empty"             -> <<>>
      [] name = "runt"              -> Zeros(13)
      [] name = "eth_only"          -> EthernetHeader(2048)
      [] name = "ipv4_bare"         -> EthernetHeader(2048)
                                         \o Ipv4Header(69, 0, 6, <<10, 0, 0, 5>>)
      [] name = "ipv4_ihl_small"    -> EthernetHeader(2048)
                                         \o Ipv4Header(68, 0, 6, <<10, 0, 0, 5>>) \o Ports(1024, 80)
      [] name = "arp"               -> EthernetHeader(2054) \o Zeros(24)
      [] name = "lldp"              -> EthernetHeader(35020) \o Zeros(24)
      [] name = "ipv4_short"        -> EthernetHeader(2048) \o Zeros(19)
      [] name = "ipv4_bad_version"  -> EthernetHeader(2048)
                                         \o Ipv4Header(101, 0, 6, <<10, 0, 0, 5>>) \o Ports(1024, 80)
      [] name = "ipv4_ihl_past_end" -> EthernetHeader(2048)
                                         \o Ipv4Header(79, 0, 6, <<10, 0, 0, 5>>)
      [] name = "ipv4_options_no_ports" -> EthernetHeader(2048)
                                         \o Ipv4Header(70, 0, 6, <<10, 0, 0, 5>>) \o Zeros(7)
      [] name = "ipv4_tcp_80"       -> EthernetHeader(2048)
                                         \o Ipv4Header(69, 0, 6, <<10, 0, 0, 5>>) \o Ports(1024, 80)
      [] name = "ipv4_udp_53_ef"    -> EthernetHeader(2048)
                                         \o Ipv4Header(69, 184, 17, <<10, 0, 0, 5>>) \o Ports(53, 53)
      [] name = "ipv4_local"        -> EthernetHeader(2048)
                                         \o Ipv4Header(69, 0, 6, <<10, 0, 0, 1>>) \o Ports(1024, 22)
      [] name = "ipv4_local_udp"    -> EthernetHeader(2048)
                                         \o Ipv4Header(69, 184, 17, <<10, 0, 0, 1>>) \o Ports(53, 53)
      [] name = "ipv4_no_route"     -> EthernetHeader(2048)
                                         \o Ipv4Header(69, 0, 6, <<8, 8, 8, 8>>) \o Ports(1024, 80)
      [] name = "ipv4_no_route_udp" -> EthernetHeader(2048)
                                         \o Ipv4Header(69, 184, 17, <<8, 8, 8, 8>>) \o Ports(53, 53)
      [] name = "ipv6_short"        -> EthernetHeader(34525) \o Zeros(39)
      [] name = "ipv6_bad_version"  -> EthernetHeader(34525) \o Ipv6Header(64, 6, Ipv6Routed)
      [] name = "ipv6_routed"       -> EthernetHeader(34525) \o Ipv6Header(96, 6, Ipv6Routed)
      [] name = "ipv6_local"        -> EthernetHeader(34525) \o Ipv6Header(96, 6, Ipv6Local)
      [] name = "ipv6_no_route"     -> EthernetHeader(34525) \o Ipv6Header(96, 17, Ipv6Unrouted)

NoFrame == ""

----------------------------------------------------------------------------
(* pnet's packet views, as packet_engine.rs uses them: new() is None when  *)
(* the buffer is shorter than the fixed header, the getters read fields at *)
(* fixed offsets                                                           *)

(* EthernetPacket::new (packet_engine.rs:191) *)
EthernetPacketNew(packet) == IF Len(packet) >= 14 THEN Some(packet) ELSE None

(* EthernetPacket::get_ethertype (packet_engine.rs:201) *)
get_ethertype(ethernet) == ethernet[13] * 256 + ethernet[14]

(* EthernetPacket::payload (packet_engine.rs:226, 254) *)
payload(ethernet) == SubSeq(ethernet, 15, Len(ethernet))

(* Ipv4Packet::new (packet_engine.rs:226) *)
Ipv4PacketNew(bytes) == IF Len(bytes) >= 20 THEN Some(bytes) ELSE None

(* Ipv6Packet::new (packet_engine.rs:254) *)
Ipv6PacketNew(bytes) == IF Len(bytes) >= 40 THEN Some(bytes) ELSE None

(* Ipv4Packet::get_destination (packet_engine.rs:290, 363) *)
Ipv4Destination(ipv4) == SubSeq(ipv4, 17, 20)

(* Ipv6Packet::get_destination (packet_engine.rs:302, 383) *)
Ipv6Destination(ipv6) == SubSeq(ipv6, 25, 40)

(* config.interfaces: the ip strings of the router's own interfaces *)
ConfigInterfaceIps == <<"10.0.0.1", "fe80::1", "not-an-ip">>

(* a local test that is always false *)
IsLocalNever(family, destination) == FALSE

(* PacketEngine::is_local_packet and is_local_ipv6_packet                  *)
(* (packet_engine.rs:286-308): some interface ip parses as an address of   *)
(* the family and equals the destination                                   *)
IsLocal(family, destination) ==
    \E i \in 1..Len(ConfigInterfaceIps) :
        LET ip == IpAddrFromStr(ConfigInterfaceIps[i])
        IN  ip # None /\ ip[1].family = family /\ ip[1].octets = destination

(* (destination & mask) == (network & mask), octet by octet *)
PrefixMatches(destination, network, prefix_len) ==
    /\ Len(destination) = Len(network)
    /\ \A i \in 1..Len(destination) :
          BitAnd8(destination[i], MaskOctet(prefix_len, i), 8)
            = BitAnd8(network[i], MaskOctet(prefix_len, i), 8)

(* the routes of the table whose network holds the destination *)
RoutesHolding(table, destination) ==
    {d \in DOMAIN table :
        LET parts == SplitSlash(d)
        IN  /\ Len(parts) = 2
            /\ IpAddrFromStr(parts[1]) # None
            /\ ParseU8(parts[2]) # None
            /\ PrefixMatches(destination, IpAddrFromStr(parts[1])[1].octets, ParseU8(parts[2])[1])}

(* RoutingTable::find_route and find_route_v6, called at                   *)
(* packet_engine.rs:366 and 386: the longest prefix that holds the         *)
(* destination, the lowest metric among equals; None when no route holds it *)
find_route(table, destination) ==
    LET holding == RoutesHolding(table, destination)
    IN  IF holding = {} THEN None
        ELSE Some(table[CHOOSE d \in holding :
                     \A e \in holding :
                        \/ ParseU8(SplitSlash(d)[2])[1] > ParseU8(SplitSlash(e)[2])[1]
                        \/ /\ ParseU8(SplitSlash(d)[2])[1] = ParseU8(SplitSlash(e)[2])[1]
                           /\ ~U32Less(table[e].metric, table[d].metric)])

----------------------------------------------------------------------------
(* PacketEngine::process_packet (packet_engine.rs:181-218) and what it     *)
(* calls, run by the capture task of an interface                          *)

Frames == {"runt", "arp", "lldp", "ipv4_short", "ipv4_bad_version", "ipv4_tcp_80",
           "ipv4_udp_53_ef", "ipv4_local", "ipv4_local_udp", "ipv4_no_route", "ipv6_routed",
           "ipv6_local"}

EngineRoutes ==
    {RouteNew("10.0.0.0/24", "192.168.1.1", "eth0", 24, U32(1), "static"),
     RouteNew("2001:db8::/32", "fe80::2", "eth0", 32, U32(1), "static")}

EngineDestinations == {"10.0.0.0/24"}

(* the identity under which a capture task holds the table's read lock *)
Capture(t) == NumThreads + t

NoCounts == [packets_processed |-> 0, bytes_processed |-> 0, packets_dropped |-> 0,
             packets_forwarded |-> 0, packets_routed |-> 0, errors |-> 0]

(* one fetch_add(n, Ordering::Relaxed) on a counter of PacketStats *)
EngAdd(t, counter, n, pc) ==
    /\ eng_stats' = [eng_stats EXCEPT ![counter] = @ + n]
    /\ eng_call' = [eng_call EXCEPT ![t].counted[counter] = @ + n]
    /\ eng_pc' = [eng_pc EXCEPT ![t] = pc]

(* rx.next() hands a frame over and process_packet counts it               *)
(* (packet_engine.rs:161-163, 187)                                         *)
EngReceive(t, f) ==
    /\ eng_pc[t] = "idle"
    /\ eng_stats.packets_processed < MaxPackets
    /\ eng_frame' = [eng_frame EXCEPT ![t] = f]
    /\ eng_stats' = [eng_stats EXCEPT !.packets_processed = @ + 1]
    /\ eng_call' = [eng_call EXCEPT ![t] =
                       [counted |-> [NoCounts EXCEPT !.packets_processed = 1], lookups |-> 0]]
    /\ eng_pc' = [eng_pc EXCEPT ![t] = "bytes"]
    /\ UNCHANGED <<clock, rt_vars, pool_vars, flow_vars, m_vars, proc_vars, sink_vars, rest_vars>>

(* packet_engine.rs:188 *)
EngBytes(t) ==
    /\ eng_pc[t] = "bytes"
    /\ EngAdd(t, "bytes_processed", Len(FrameBytes(eng_frame[t])), "parse")
    /\ UNCHANGED <<clock, rt_vars, pool_vars, flow_vars, m_vars, proc_vars, sink_vars, rest_vars, eng_frame>>

(* a dispatch that hands only TCP over IPv4 to the forwarding path *)
EngDispatchTcpOnly(packet) ==
    LET ethernet == EthernetPacketNew(packet) IN
    IF ethernet = None THEN "invalid_ethernet"
    ELSE IF get_ethertype(ethernet[1]) = 2048
    THEN LET ipv4 == Ipv4PacketNew(payload(ethernet[1])) IN
         IF ipv4 = None THEN "invalid_ip"
         ELSE IF IsLocal("V4", Ipv4Destination(ipv4[1])) THEN "local"
         ELSE IF ipv4[1][10] # 6 THEN "unsupported"
         ELSE "forward"
    ELSE IF get_ethertype(ethernet[1]) = 34525
    THEN LET ipv6 == Ipv6PacketNew(payload(ethernet[1])) IN
         IF ipv6 = None THEN "invalid_ip"
         ELSE IF IsLocal("V6", Ipv6Destination(ipv6[1])) THEN "local" ELSE "forward"
    ELSE IF get_ethertype(ethernet[1]) = 2054 THEN "arp"
    ELSE "unsupported"

(* what the parse decides (packet_engine.rs:191-215, 226-243, 254-271) *)
EngDispatch(packet) ==
    LET ethernet == EthernetPacketNew(packet) IN
    IF ethernet = None THEN "invalid_ethernet"
    ELSE IF get_ethertype(ethernet[1]) = 2048
    THEN LET ipv4 == Ipv4PacketNew(payload(ethernet[1])) IN
         IF ipv4 = None THEN "invalid_ip"
         ELSE IF IsLocal("V4", Ipv4Destination(ipv4[1])) THEN "local" ELSE "forward"
    ELSE IF get_ethertype(ethernet[1]) = 34525
    THEN LET ipv6 == Ipv6PacketNew(payload(ethernet[1])) IN
         IF ipv6 = None THEN "invalid_ip"
         ELSE IF IsLocal("V6", Ipv6Destination(ipv6[1])) THEN "local" ELSE "forward"
    ELSE IF get_ethertype(ethernet[1]) = 2054 THEN "arp"
    ELSE "unsupported"

(* ipv4.get_destination() / ipv6.get_destination() of a frame being       *)
(* forwarded (packet_engine.rs:363, 383)                                   *)
EngDestination(packet) ==
    IF get_ethertype(packet) = 2048
    THEN Ipv4Destination(payload(packet))
    ELSE Ipv6Destination(payload(packet))

(* process_packet from the Ethernet parse to its next counter or lock *)
EngParse(t) ==
    /\ eng_pc[t] = "parse"
    /\ LET decision == EngDispatch(FrameBytes(eng_frame[t])) IN
       CASE decision \in {"invalid_ethernet", "invalid_ip", "unsupported"} ->
               EngAdd(t, "packets_dropped", 1, "return")
         [] decision = "arp" ->
               EngAdd(t, "packets_forwarded", 1, "return")
         [] decision = "local" ->
               /\ eng_pc' = [eng_pc EXCEPT ![t] = "return"]
               /\ UNCHANGED <<eng_stats, eng_call>>
         [] decision = "forward" ->
               /\ eng_pc' = [eng_pc EXCEPT ![t] = "forward"]
               /\ UNCHANGED <<eng_stats, eng_call>>
    /\ UNCHANGED <<clock, rt_vars, pool_vars, flow_vars, m_vars, proc_vars, sink_vars, rest_vars, eng_frame>>

(* routing_table.read().await (packet_engine.rs:364, 384) *)
EngReadLock(t) ==
    /\ eng_pc[t] = "forward"
    /\ CanRead(t)
    /\ rt_readers' = rt_readers \cup {Capture(t)}
    /\ eng_pc' = [eng_pc EXCEPT ![t] = "lookup"]
    /\ UNCHANGED <<clock, pool_vars, flow_vars, m_vars, proc_vars, sink_vars, rest_vars, eng_stats, eng_frame, eng_call,
                   routes, protocol_counts, interface_counts, last_update, total_updates,
                   rt_writer, rt_pc, rt_dest, rt_result, rt_ret, rt_op>>

(* a forwarding step that counts every looked-up frame as routed *)
EngForwardAlwaysRouted(t) ==
    /\ eng_pc[t] = "lookup"
    /\ eng_stats' = [eng_stats EXCEPT !.packets_routed = @ + 1]
    /\ eng_call' = [eng_call EXCEPT ![t].counted.packets_routed = @ + 1,
                                    ![t].lookups = @ + 1]
    /\ eng_pc' = [eng_pc EXCEPT ![t] = "return"]
    /\ UNCHANGED <<clock, rt_vars, pool_vars, flow_vars, m_vars, proc_vars, sink_vars, rest_vars, eng_frame>>

(* forward_ipv4_packet / forward_ipv6_packet under the read guard          *)
(* (packet_engine.rs:366-373, 386-393)                                     *)
EngForward(t) ==
    /\ eng_pc[t] = "lookup"
    /\ LET route == find_route(routes, EngDestination(FrameBytes(eng_frame[t])))
           counter == IF route # None THEN "packets_routed" ELSE "packets_dropped"
       IN  /\ eng_stats' = [eng_stats EXCEPT ![counter] = @ + 1]
           /\ eng_call' = [eng_call EXCEPT ![t].counted[counter] = @ + 1,
                                           ![t].lookups = @ + 1]
    /\ eng_pc' = [eng_pc EXCEPT ![t] = "return"]
    /\ UNCHANGED <<clock, rt_vars, pool_vars, flow_vars, m_vars, proc_vars, sink_vars, rest_vars, eng_frame>>

(* process_packet returns Ok(()) to the capture loop; the read guard of    *)
(* forward_*_packet, if taken, has been dropped (packet_engine.rs:163,     *)
(* 217, 375-376, 395-396)                                                  *)
EngReturn(t) ==
    /\ eng_pc[t] = "return"
    /\ rt_readers' = rt_readers \ {Capture(t)}
    /\ eng_pc' = [eng_pc EXCEPT ![t] = "idle"]
    /\ eng_frame' = [eng_frame EXCEPT ![t] = NoFrame]
    /\ eng_call' = [eng_call EXCEPT ![t] = [counted |-> NoCounts, lookups |-> 0]]
    /\ UNCHANGED <<clock, pool_vars, flow_vars, m_vars, proc_vars, sink_vars, rest_vars, eng_stats,
                   routes, protocol_counts, interface_counts, last_update, total_updates,
                   rt_writer, rt_pc, rt_dest, rt_result, rt_ret, rt_op>>

(* PacketStats::new (packet_engine.rs:44-54) and tasks waiting in rx.next() *)
EngInit ==
    /\ eng_stats = NoCounts
    /\ eng_pc = [t \in Threads |-> "idle"]
    /\ eng_frame = [t \in Threads |-> NoFrame]
    /\ eng_call = [t \in Threads |-> [counted |-> NoCounts, lookups |-> 0]]

EngineNext ==
    \/ \E t \in Threads, f \in Frames : EngReceive(t, f)
    \/ \E t \in Threads : EngBytes(t)
    \/ \E t \in Threads : EngParse(t)
    \/ \E t \in Threads : EngReadLock(t)
    \/ \E t \in Threads : EngForward(t)
    \/ \E t \in Threads : EngReturn(t)
    \/ \E t \in Threads : RtWriteLock(t)
    \/ \E t \in Threads, r \in EngineRoutes : add_route(t, r)
    \/ \E t \in Threads, d \in EngineDestinations : remove_route(t, d)
    \/ \E t \in Threads : RtWriteUnlock(t)

(* PacketProcessor (packet_processor.rs): process_single_packet and the    *)
(* statistics process_packet_batch keeps                                   *)

OkBool(b) == <<"Ok", b>>
Panic == <<"panic">>

(* &data[from..to]: the bytes at offsets from..to-1, or None where the     *)
(* range is out of bounds, which panics                                    *)
Slice(data, from, to) ==
    IF from <= to /\ to <= Len(data) THEN Some(SubSeq(data, from + 1, to)) ELSE None

(* the test that the port bytes exist, without the four port bytes *)
PortBytesPresentHeaderOnly(data, ihl) == Len(data) >= 14 + ihl

(* packet.data.len() >= 14 + ihl + 4 (packet_processor.rs:333, 339) *)
PortBytesPresent(data, ihl) == Len(data) >= 14 + ihl + 4

(* PacketProcessor::process_ipv4_packet (packet_processor.rs:306-349) *)
process_ipv4_packet(data) ==
    IF Len(data) < 34 THEN OkBool(FALSE)
    ELSE LET ip_header == Slice(data, 14, 34) IN
         IF ip_header = None THEN Panic
         ELSE LET version == ip_header[1][1] \div 16
                  ihl == (ip_header[1][1] % 16) * 4
              IN  IF version # 4 THEN OkBool(FALSE)
                  ELSE IF ihl < 20 \/ Len(data) < 14 + ihl THEN OkBool(FALSE)
                  ELSE IF PortBytesPresent(data, ihl) /\ Slice(data, 14 + ihl, 14 + ihl + 4) = None
                       THEN Panic
                       ELSE OkBool(TRUE)

(* PacketProcessor::process_ipv6_packet (packet_processor.rs:351-383) *)
process_ipv6_packet(data) ==
    IF Len(data) < 54 THEN OkBool(FALSE)
    ELSE LET ip_header == Slice(data, 14, 54) IN
         IF ip_header = None THEN Panic
         ELSE IF ip_header[1][1] \div 16 # 6 THEN OkBool(FALSE)
         ELSE OkBool(TRUE)

(* PacketProcessor::process_single_packet (packet_processor.rs:280-304) *)
process_single_packet(data) ==
    IF Len(data) < 14 THEN OkBool(FALSE)
    ELSE LET eth_header == Slice(data, 0, 14) IN
         IF eth_header = None THEN Panic
         ELSE LET ethertype == eth_header[1][13] * 256 + eth_header[1][14] IN
              IF ethertype = 2048 THEN process_ipv4_packet(data)
              ELSE IF ethertype = 34525 THEN process_ipv6_packet(data)
              ELSE OkBool(TRUE)

ProcFrames == {"empty", "runt", "eth_only", "lldp", "ipv4_short", "ipv4_bare", "ipv4_ihl_past_end",
               "ipv4_ihl_small", "ipv4_options_no_ports", "ipv4_tcp_80", "ipv4_bad_version",
               "ipv6_short", "ipv6_routed", "ipv6_bad_version"}

(* the batches a worker collects from the channels (packet_processor.rs:216-227) *)
ProcBatches == {<<f>> : f \in ProcFrames} \cup {<<f, g>> : f, g \in ProcFrames}

(* the statistics after one result (packet_processor.rs:258-271) *)
ProcCount(stats, size, result) ==
    IF result = OkBool(TRUE)
    THEN [stats EXCEPT !.packets_processed = @ + 1, !.bytes_processed = @ + size]
    ELSE IF result = OkBool(FALSE)
    THEN [stats EXCEPT !.packets_dropped = @ + 1, !.bytes_dropped = @ + size]
    ELSE [stats EXCEPT !.errors = @ + 1]

RECURSIVE ProcCountAll(_, _, _)
ProcCountAll(stats, batch, results) ==
    IF batch = <<>> THEN stats
    ELSE ProcCountAll(ProcCount(stats, Len(FrameBytes(Head(batch))), Head(results)),
                      Tail(batch), Tail(results))

RECURSIVE SumSizes(_)
SumSizes(batch) ==
    IF batch = <<>> THEN 0 ELSE Len(FrameBytes(Head(batch))) + SumSizes(Tail(batch))

(* a worker has drained a batch from the channels (packet_processor.rs:216-230) *)
ProcCollect(batch) ==
    /\ proc_batch = <<>>
    /\ proc_stats.packets_received + Len(batch) <= MaxPackets
    /\ proc_batch' = batch
    /\ proc_results' = <<>>
    /\ UNCHANGED <<clock, rt_vars, pool_vars, flow_vars, m_vars, eng_vars, sink_vars, rest_vars, proc_stats>>

(* PacketProcessor::process_packet_batch (packet_processor.rs:242-278) *)
process_packet_batch ==
    /\ proc_batch # <<>>
    /\ LET results == [i \in 1..Len(proc_batch) |-> process_single_packet(FrameBytes(proc_batch[i]))]
           counted == ProcCountAll(proc_stats, proc_batch, results)
       IN  /\ proc_results' = [i \in 1..Len(proc_batch) |-> <<proc_batch[i], results[i]>>]
           /\ proc_stats' = [counted EXCEPT !.packets_received = @ + Len(proc_batch),
                                            !.bytes_received = @ + SumSizes(proc_batch),
                                            !.last_update = clock]
    /\ proc_batch' = <<>>
    /\ UNCHANGED <<clock, rt_vars, pool_vars, flow_vars, m_vars, eng_vars, sink_vars, rest_vars>>

(* The analytics buffers and their flushes to the persistence sink        *)
(* (clickhouse.rs:494-638, clickhouse_analytics.rs:72-264, 608-619)        *)

Engines == {"AnalyticsEngine", "ClickHouseAnalytics"}

(* the records of a Vec *)
Range(seq) == {seq[i] : i \in 1..Len(seq)}

(* a flush between taking the records out of the buffer and the end of its insert *)
Flush(engine, caller, metrics) == [engine |-> engine, caller |-> caller, metrics |-> metrics]

(* push the record; at the threshold take the whole buffer out, release the *)
(* lock and start the insert (clickhouse.rs:518-527,                        *)
(* clickhouse_analytics.rs:249-257)                                         *)
Record(engine) ==
    /\ recorded[engine] < MaxRecords
    /\ LET metric == recorded[engine] + 1
           buffer == Append(metrics_buffer[engine], metric)
       IN  /\ recorded' = [recorded EXCEPT ![engine] = metric]
           /\ IF Len(buffer) >= BatchSize
              THEN /\ metrics_buffer' = [metrics_buffer EXCEPT ![engine] = <<>>]
                   /\ flushing' = flushing \cup {Flush(engine, "record", buffer)}
              ELSE /\ metrics_buffer' = [metrics_buffer EXCEPT ![engine] = buffer]
                   /\ UNCHANGED flushing
    /\ UNCHANGED <<clock, rt_vars, pool_vars, flow_vars, m_vars, eng_vars, proc_vars, rest_vars, inserted>>

(* AnalyticsEngine::record_network_metrics (clickhouse.rs:517-531) *)
record_network_metrics == Record("AnalyticsEngine")

(* ClickHouseAnalytics::record_network_metric (clickhouse_analytics.rs:248-264) *)
record_network_metric == Record("ClickHouseAnalytics")

(* the flush task's tick (clickhouse_analytics.rs:199-209): below the batch *)
(* size it continues, otherwise it drains the buffer                        *)
flush_task ==
    /\ Len(metrics_buffer["ClickHouseAnalytics"]) >= BatchSize
    /\ flushing' = flushing \cup
                     {Flush("ClickHouseAnalytics", "flush_task", metrics_buffer["ClickHouseAnalytics"])}
    /\ metrics_buffer' = [metrics_buffer EXCEPT !["ClickHouseAnalytics"] = <<>>]
    /\ UNCHANGED <<clock, rt_vars, pool_vars, flow_vars, m_vars, eng_vars, proc_vars, rest_vars, inserted, recorded>>

(* take every buffered record out and start the insert *)
FlushAll(engine) ==
    /\ metrics_buffer[engine] # <<>>
    /\ flushing' = flushing \cup {Flush(engine, "flush_all", metrics_buffer[engine])}
    /\ metrics_buffer' = [metrics_buffer EXCEPT ![engine] = <<>>]
    /\ UNCHANGED <<clock, rt_vars, pool_vars, flow_vars, m_vars, eng_vars, proc_vars, rest_vars, inserted, recorded>>

(* AnalyticsEngine::flush_all_buffers, network metrics (clickhouse.rs:593-604) *)
flush_all_buffers == FlushAll("AnalyticsEngine")

(* ClickHouseAnalytics::flush_all_metrics (clickhouse_analytics.rs:608-619) *)
flush_all_metrics == FlushAll("ClickHouseAnalytics")

(* the insert succeeded (clickhouse.rs:217-244, clickhouse_analytics.rs:223-246) *)
InsertOk(flush) ==
    /\ flush \in flushing
    /\ inserted' = [inserted EXCEPT ![flush.engine] = @ \cup Range(flush.metrics)]
    /\ flushing' = flushing \ {flush}
    /\ UNCHANGED <<clock, rt_vars, pool_vars, flow_vars, m_vars, eng_vars, proc_vars, rest_vars,
                   metrics_buffer, recorded>>

(* every failed flush puts its records back *)
ReAddsOnFailureAlways(flush) == TRUE

(* the callers that extend the buffer with the records of a failed flush   *)
(* (clickhouse_analytics.rs:212-217, 257-262); the others return the error *)
(* with `?` (clickhouse.rs:527, 601; clickhouse_analytics.rs:615)          *)
ReAddsOnFailure(flush) ==
    flush.engine = "ClickHouseAnalytics" /\ flush.caller \in {"record", "flush_task"}

(* the insert failed *)
InsertErr(flush) ==
    /\ flush \in flushing
    /\ flushing' = flushing \ {flush}
    /\ metrics_buffer' = IF ReAddsOnFailure(flush)
                         THEN [metrics_buffer EXCEPT ![flush.engine] = @ \o flush.metrics]
                         ELSE metrics_buffer
    /\ UNCHANGED <<clock, rt_vars, pool_vars, flow_vars, m_vars, eng_vars, proc_vars, rest_vars,
                   inserted, recorded>>

(* AnalyticsEngine::new (clickhouse.rs:504-515), ClickHouseAnalytics::new *)
(* (clickhouse_analytics.rs:80-104)                                       *)
SinkInit ==
    /\ metrics_buffer = [engine \in Engines |-> <<>>]
    /\ flushing = {}
    /\ inserted = [engine \in Engines |-> {}]
    /\ recorded = [engine \in Engines |-> 0]

SinkNext ==
    \/ record_network_metrics
    \/ record_network_metric
    \/ flush_task
    \/ flush_all_buffers
    \/ flush_all_metrics
    \/ \E flush \in flushing : InsertOk(flush)
    \/ \E flush \in flushing : InsertErr(flush)

(* PacketProcessor's workers: initialize, start, add_interface,            *)
(* process_packet and processing_worker (packet_processor.rs:94-240)       *)

(* num_cpus::get() in the model *)
Workers == 1..NumThreads
NoWorker == 0

WorkerFrames == {"runt", "ipv4_tcp_80"}

WorkerFrame ==
    UNCHANGED <<clock, rt_vars, pool_vars, flow_vars, m_vars, eng_vars, sink_vars,
                proc_batch, proc_results, lock_vars, svc_vars, hist_vars>>

(* PacketProcessor::initialize (packet_processor.rs:94-114): one *)
(* tokio::spawn of a processing_worker per step                  *)
initialize ==
    /\ init_pc < NumThreads
    /\ init_pc' = init_pc + 1
    /\ worker_pc' = [worker_pc EXCEPT ![init_pc + 1] = "check"]
    /\ UNCHANGED <<is_running, started, registered, channel, worker_batch, stats_lock,
                   accepted, proc_stats>>
    /\ WorkerFrame

(* PacketProcessor::start (packet_processor.rs:116-125), called after *)
(* initialize has returned                                            *)
start ==
    /\ init_pc = NumThreads
    /\ ~started
    /\ is_running' = TRUE
    /\ started' = TRUE
    /\ UNCHANGED <<init_pc, registered, channel, worker_pc, worker_batch, stats_lock,
                   accepted, proc_stats>>
    /\ WorkerFrame

(* PacketProcessor::add_interface (packet_processor.rs:142-159) *)
add_interface ==
    /\ ~registered
    /\ registered' = TRUE
    /\ channel' = <<>>
    /\ UNCHANGED <<is_running, init_pc, started, worker_pc, worker_batch, stats_lock,
                   accepted, proc_stats>>
    /\ WorkerFrame

(* PacketProcessor::process_packet (packet_processor.rs:172-181) for a *)
(* registered interface: the packet is sent into its channel           *)
process_packet_send(frame) ==
    /\ registered
    /\ accepted < MaxPackets
    /\ channel' = Append(channel, frame)
    /\ accepted' = accepted + 1
    /\ UNCHANGED <<is_running, init_pc, started, registered, worker_pc, worker_batch,
                   stats_lock, proc_stats>>
    /\ WorkerFrame

(* the worker tests is_running at the top of its loop and leaves the loop *)
(* when it is false (packet_processor.rs:206-213)                         *)
WorkerCheck(w) ==
    /\ worker_pc[w] = "check"
    /\ worker_pc' = [worker_pc EXCEPT ![w] = IF is_running THEN "collect" ELSE "stopped"]
    /\ UNCHANGED <<is_running, init_pc, started, registered, channel, worker_batch,
                   stats_lock, accepted, proc_stats>>
    /\ WorkerFrame

(* one rx.try_recv() (packet_processor.rs:216-227): a packet moves into   *)
(* the worker's batch, or the channel is empty and the worker goes on to  *)
(* process its batch, or to sleep and loop when the batch is empty        *)
WorkerRecv(w) ==
    /\ worker_pc[w] = "collect"
    /\ IF registered /\ channel # <<>>
       THEN /\ worker_batch' = [worker_batch EXCEPT ![w] = Append(@, Head(channel))]
            /\ channel' = Tail(channel)
            /\ UNCHANGED worker_pc
       ELSE /\ worker_pc' = [worker_pc EXCEPT ![w] =
                                IF worker_batch[w] = <<>> THEN "check" ELSE "process"]
            /\ UNCHANGED <<channel, worker_batch>>
    /\ UNCHANGED <<is_running, init_pc, started, registered, stats_lock, accepted, proc_stats>>
    /\ WorkerFrame

(* the statistics write guard dropped after the results loop *)
GuardAfterResultsDropped(w) == NoWorker

(* the holder of the statistics write guard after the results loop: the *)
(* guard lives to the end of process_packet_batch                       *)
(* (packet_processor.rs:256-278)                                        *)
GuardAfterResults(w) == w

(* process_packet_batch, first part (packet_processor.rs:247-272): the     *)
(* results of process_single_packet, the write lock, the loop that counts  *)
(* each result                                                             *)
WorkerCountResults(w) ==
    /\ worker_pc[w] = "process"
    /\ stats_lock = NoWorker
    /\ LET results == [i \in 1..Len(worker_batch[w]) |->
                          process_single_packet(FrameBytes(worker_batch[w][i]))]
       IN  proc_stats' = ProcCountAll(proc_stats, worker_batch[w], results)
    /\ stats_lock' = GuardAfterResults(w)
    /\ worker_pc' = [worker_pc EXCEPT ![w] = "received"]
    /\ UNCHANGED <<is_running, init_pc, started, registered, channel, worker_batch, accepted>>
    /\ WorkerFrame

(* process_packet_batch, second part (packet_processor.rs:274-278): the   *)
(* received counters, the end of the guard, and packet_batch.clear()      *)
(* (packet_processor.rs:231)                                              *)
WorkerCountReceived(w) ==
    /\ worker_pc[w] = "received"
    /\ stats_lock \in {w, NoWorker}
    /\ proc_stats' = [proc_stats EXCEPT !.packets_received = @ + Len(worker_batch[w]),
                                        !.bytes_received = @ + SumSizes(worker_batch[w]),
                                        !.last_update = clock]
    /\ stats_lock' = NoWorker
    /\ worker_batch' = [worker_batch EXCEPT ![w] = <<>>]
    /\ worker_pc' = [worker_pc EXCEPT ![w] = "check"]
    /\ UNCHANGED <<is_running, init_pc, started, registered, channel, accepted>>
    /\ WorkerFrame

(* PacketProcessor::new (packet_processor.rs:84-92) *)
WorkerInit ==
    /\ is_running = FALSE
    /\ init_pc = 0
    /\ started = FALSE
    /\ registered = FALSE
    /\ channel = <<>>
    /\ worker_pc = [w \in Workers |-> "unspawned"]
    /\ worker_batch = [w \in Workers |-> <<>>]
    /\ stats_lock = NoWorker
    /\ accepted = 0

WorkerNext ==
    \/ initialize
    \/ start
    \/ add_interface
    \/ \E frame \in WorkerFrames : process_packet_send(frame)
    \/ \E w \in Workers : WorkerCheck(w)
    \/ \E w \in Workers : WorkerRecv(w)
    \/ \E w \in Workers : WorkerCountResults(w)
    \/ \E w \in Workers : WorkerCountReceived(w)

(* The locking of MemoryPool (memory_pool.rs:89-172): each call is the    *)
(* sequence of its lock acquisitions, releases and updates.  A guard bound *)
(* by `let` is released at the end of the function; the guard of           *)
(* `*self.counter.lock().unwrap() += 1` is released at the end of that     *)
(* statement.                                                              *)

(* usize subtraction: a negative difference panics in a build with        *)
(* overflow checks and wraps in one without; <<"wrapped", n>> stands for   *)
(* the value 2^64 - n                                                      *)
UsizeSub(a, b) ==
    IF a >= b THEN {<<"value", a - b>>}
    ELSE {<<"panic">>, <<"wrapped", b - a>>}

Mutexes == {"buffers", "created_buffers", "total_allocations", "total_deallocations"}

Lock(m) == <<"lock", m>>
Unlock(m) == <<"unlock", m>>
Do(what) == <<"do", what>>
Branch(at) == <<"branch", at>>

(* *self.counter.lock().unwrap() += 1 *)
Increment(m) == <<Lock(m), Do(m), Unlock(m)>>

(* the calls, up to their first data-dependent branch *)
PoolCallStart(call) ==
    CASE call = "get_packet"    -> <<Lock("buffers"), Branch("position")>>
      [] call = "return_packet" -> <<Do("give"), Branch("entry")>>
      [] call = "get_stats"     -> <<Lock("buffers"),
                                     Lock("created_buffers"), Do("read_created"),
                                     Unlock("created_buffers"),
                                     Lock("total_allocations"), Unlock("total_allocations"),
                                     Lock("total_deallocations"), Do("read_deallocations"),
                                     Unlock("total_deallocations"),
                                     Do("subtract"), Unlock("buffers")>>
      [] call = "cleanup"       -> <<Lock("buffers"), Do("retain"), Unlock("buffers")>>
      [] call = "clear"         -> <<Lock("buffers"), Do("clear"), Unlock("buffers")>>

(* what a call does after a branch: the pooled buffer found or not         *)
(* (memory_pool.rs:93-110), the entry test of return_packet (116-119), and *)
(* the pool full or not (124-135)                                          *)
PoolBranches(at) ==
    CASE at = "position" ->
            (IF lk_counts.pooled > 0
             THEN {<<Do("take")>> \o Increment("total_allocations")
                     \o <<Do("lease"), Unlock("buffers")>>}
             ELSE {})
            \cup {<<Lock("created_buffers"), Unlock("created_buffers")>>
                    \o Increment("created_buffers") \o Increment("total_allocations")
                    \o <<Do("lease"), Unlock("buffers")>>}
      [] at = "entry" ->
            {Increment("total_deallocations"), <<Lock("buffers"), Branch("full")>>}
      [] at = "full" ->
            IF lk_counts.pooled >= MaxPoolSizeCfg
            THEN {Increment("total_deallocations") \o <<Unlock("buffers")>>}
            ELSE {<<Do("push")>> \o Increment("total_deallocations") \o <<Unlock("buffers")>>}

PoolCalls == {"get_packet", "return_packet", "get_stats", "cleanup", "clear"}

LockFrame ==
    UNCHANGED <<clock, rt_vars, pool_vars, flow_vars, m_vars, eng_vars, proc_vars, sink_vars,
                worker_vars, svc_vars, hist_vars>>

(* a thread calls into the pool *)
PoolCall(t, call) ==
    /\ lk_prog[t] = <<>>
    /\ t \notin lk_panicked
    /\ lk_calls < MaxPoolCalls
    /\ call = "return_packet" => lk_leased[t] > 0
    /\ lk_prog' = [lk_prog EXCEPT ![t] = PoolCallStart(call)]
    /\ lk_calls' = lk_calls + 1
    /\ UNCHANGED <<lk_holder, lk_poisoned, lk_read, lk_panicked, lk_counts, lk_leased>>
    /\ LockFrame

(* a panic unwinds the thread: the mutexes it holds are poisoned and released *)
PoolPanic(t) ==
    /\ lk_panicked' = lk_panicked \cup {t}
    /\ lk_poisoned' = lk_poisoned \cup {m \in Mutexes : lk_holder[m] = t}
    /\ lk_holder' = [m \in Mutexes |-> IF lk_holder[m] = t THEN NoThread ELSE lk_holder[m]]
    /\ lk_prog' = [lk_prog EXCEPT ![t] = <<>>]
    /\ UNCHANGED <<lk_read, lk_counts, lk_leased, lk_calls>>

(* mutex.lock().unwrap(): waits while the mutex is held, panics when it is poisoned *)
PoolLockStep(t) ==
    /\ lk_prog[t] # <<>>
    /\ Head(lk_prog[t])[1] = "lock"
    /\ LET m == Head(lk_prog[t])[2] IN
       IF m \in lk_poisoned
       THEN PoolPanic(t)
       ELSE /\ lk_holder[m] = NoThread
            /\ lk_holder' = [lk_holder EXCEPT ![m] = t]
            /\ lk_prog' = [lk_prog EXCEPT ![t] = Tail(@)]
            /\ UNCHANGED <<lk_poisoned, lk_read, lk_panicked, lk_counts, lk_leased, lk_calls>>
    /\ LockFrame

(* the guard is dropped *)
PoolUnlockStep(t) ==
    /\ lk_prog[t] # <<>>
    /\ Head(lk_prog[t])[1] = "unlock"
    /\ lk_holder' = [lk_holder EXCEPT ![Head(lk_prog[t])[2]] = NoThread]
    /\ lk_prog' = [lk_prog EXCEPT ![t] = Tail(@)]
    /\ UNCHANGED <<lk_poisoned, lk_read, lk_panicked, lk_counts, lk_leased, lk_calls>>
    /\ LockFrame

PoolBranchStep(t) ==
    /\ lk_prog[t] # <<>>
    /\ Head(lk_prog[t])[1] = "branch"
    /\ \E rest \in PoolBranches(Head(lk_prog[t])[2]) :
          lk_prog' = [lk_prog EXCEPT ![t] = rest \o Tail(@)]
    /\ UNCHANGED <<lk_holder, lk_poisoned, lk_read, lk_panicked, lk_counts, lk_leased, lk_calls>>
    /\ LockFrame

(* the updates between the lock operations; `created - deallocations`     *)
(* (memory_pool.rs:152) below zero panics in a build with overflow checks *)
(* and wraps in a build without                                           *)
PoolDoStep(t) ==
    /\ lk_prog[t] # <<>>
    /\ Head(lk_prog[t])[1] = "do"
    /\ LET what == Head(lk_prog[t])[2]
           next == /\ lk_prog' = [lk_prog EXCEPT ![t] = Tail(@)]
                   /\ UNCHANGED <<lk_holder, lk_poisoned, lk_panicked, lk_calls>>
       IN  CASE what = "created_buffers" ->
                  /\ lk_counts' = [lk_counts EXCEPT !.created = @ + 1]
                  /\ UNCHANGED <<lk_read, lk_leased>> /\ next
             [] what = "total_allocations" ->
                  /\ lk_counts' = [lk_counts EXCEPT !.allocations = @ + 1]
                  /\ UNCHANGED <<lk_read, lk_leased>> /\ next
             [] what = "total_deallocations" ->
                  /\ lk_counts' = [lk_counts EXCEPT !.deallocations = @ + 1]
                  /\ UNCHANGED <<lk_read, lk_leased>> /\ next
             [] what = "take" ->
                  /\ lk_counts' = [lk_counts EXCEPT !.pooled = @ - 1]
                  /\ UNCHANGED <<lk_read, lk_leased>> /\ next
             [] what = "push" ->
                  /\ lk_counts' = [lk_counts EXCEPT !.pooled = @ + 1]
                  /\ UNCHANGED <<lk_read, lk_leased>> /\ next
             [] what = "retain" ->
                  /\ \E kept \in 0..lk_counts.pooled :
                        lk_counts' = [lk_counts EXCEPT !.pooled = kept]
                  /\ UNCHANGED <<lk_read, lk_leased>> /\ next
             [] what = "clear" ->
                  /\ lk_counts' = [lk_counts EXCEPT !.pooled = 0]
                  /\ UNCHANGED <<lk_read, lk_leased>> /\ next
             [] what = "lease" ->
                  /\ lk_leased' = [lk_leased EXCEPT ![t] = @ + 1]
                  /\ UNCHANGED <<lk_read, lk_counts>> /\ next
             [] what = "give" ->
                  /\ lk_leased' = [lk_leased EXCEPT ![t] = @ - 1]
                  /\ UNCHANGED <<lk_read, lk_counts>> /\ next
             [] what = "read_created" ->
                  /\ lk_read' = [lk_read EXCEPT ![t] = <<lk_counts.created, 0>>]
                  /\ UNCHANGED <<lk_counts, lk_leased>> /\ next
             [] what = "read_deallocations" ->
                  /\ lk_read' = [lk_read EXCEPT ![t] = <<@[1], lk_counts.deallocations>>]
                  /\ UNCHANGED <<lk_counts, lk_leased>> /\ next
             [] what = "subtract" ->
                  \E outcome \in UsizeSub(lk_read[t][1], lk_read[t][2]) :
                     IF outcome = <<"panic">>
                     THEN PoolPanic(t)
                     ELSE /\ lk_read' = [lk_read EXCEPT ![t] = <<0, 0>>]
                          /\ UNCHANGED <<lk_counts, lk_leased>> /\ next
    /\ LockFrame

(* MemoryPool::new (memory_pool.rs:76-86) *)
LockInit ==
    /\ lk_holder = [m \in Mutexes |-> NoThread]
    /\ lk_poisoned = {}
    /\ lk_prog = [t \in Threads |-> <<>>]
    /\ lk_read = [t \in Threads |-> <<0, 0>>]
    /\ lk_panicked = {}
    /\ lk_counts = [created |-> 0, allocations |-> 0, deallocations |-> 0, pooled |-> 0]
    /\ lk_leased = [t \in Threads |-> 0]
    /\ lk_calls = 0

PoolLockNext ==
    \/ \E t \in Threads, call \in PoolCalls : PoolCall(t, call)
    \/ \E t \in Threads : PoolLockStep(t)
    \/ \E t \in Threads : PoolUnlockStep(t)
    \/ \E t \in Threads : PoolBranchStep(t)
    \/ \E t \in Threads : PoolDoStep(t)

(* AnalyticsService (clickhouse_analytics.rs:622-760) *)

TaskKinds == {"network", "system"}

(* a collection task spawned by the start call number `start`; it tests *)
(* the running flag ("check") or waits for its interval ("tick"), and has *)
(* recorded its metrics `recorded` times                                  *)
Task(kind, n, pc) == [kind |-> kind, start |-> n, pc |-> pc, recorded |-> 0]

SvcFrame ==
    UNCHANGED <<clock, rt_vars, pool_vars, flow_vars, m_vars, eng_vars, proc_vars, sink_vars,
                worker_vars, lock_vars, hist_vars>>

(* AnalyticsService::start (clickhouse_analytics.rs:636-651): nothing when *)
(* already running, otherwise the flag is set and both tasks are spawned   *)
svc_start ==
    /\ IF svc_running
       THEN UNCHANGED <<svc_running, svc_tasks, svc_starts>>
       ELSE /\ svc_starts < MaxStarts
            /\ svc_running' = TRUE
            /\ svc_starts' = svc_starts + 1
            /\ svc_tasks' = svc_tasks \cup {Task(kind, svc_starts + 1, "check") : kind \in TaskKinds}
    /\ SvcFrame

(* AnalyticsService::stop (clickhouse_analytics.rs:653-656) *)
svc_stop ==
    /\ svc_running
    /\ svc_running' = FALSE
    /\ UNCHANGED <<svc_tasks, svc_starts>>
    /\ SvcFrame

(* `while *running.read().await` (clickhouse_analytics.rs:665, 736): the *)
(* task goes on to its interval tick, or ends                            *)
TaskCheck(task) ==
    /\ task \in svc_tasks
    /\ task.pc = "check"
    /\ svc_tasks' = (svc_tasks \ {task})
                      \cup (IF svc_running THEN {[task EXCEPT !.pc = "tick"]} ELSE {})
    /\ UNCHANGED <<svc_running, svc_starts>>
    /\ SvcFrame

(* interval.tick() returns and the task collects and records its metrics *)
(* (clickhouse_analytics.rs:666-724, 737-757)                            *)
TaskTick(task) ==
    /\ task \in svc_tasks
    /\ task.pc = "tick"
    /\ task.recorded < MaxRecords
    /\ svc_tasks' = (svc_tasks \ {task})
                      \cup {[task EXCEPT !.pc = "check", !.recorded = task.recorded + 1]}
    /\ UNCHANGED <<svc_running, svc_starts>>
    /\ SvcFrame

(* AnalyticsService::new (clickhouse_analytics.rs:629-634) *)
SvcInit ==
    /\ svc_running = FALSE
    /\ svc_tasks = {}
    /\ svc_starts = 0

SvcNext ==
    \/ svc_start
    \/ svc_stop
    \/ \E task \in svc_tasks : TaskCheck(task)
    \/ \E task \in svc_tasks : TaskTick(task)

----------------------------------------------------------------------------
(* AnalyticsEngine::add_route_metrics (analytics.rs:147-155) *)

HistFrame ==
    UNCHANGED <<clock, rt_vars, pool_vars, flow_vars, m_vars, eng_vars, proc_vars, sink_vars,
                worker_vars, lock_vars, svc_vars>>

(* the RouteMetrics values the callers pass, told apart by their destination *)
RouteMetricsInputs == {"10.0.0.0/8", "192.168.1.0/24", "0.0.0.0/0"}

(* the history is cut back when it holds one entry more than this *)
OverWindowOffByOne(len) == len > HistoryWindow + 1

(* routes.len() > 1000 (analytics.rs:152) *)
OverWindow(len) == len > HistoryWindow

(* routes.drain(0..n): the list without its first n entries *)
Drain(list, n) == SubSeq(list, n + 1, Len(list))

(* the write lock is granted and the entry pushed (analytics.rs:148-149) *)
add_route_metrics_push(t) ==
    /\ rm_pc[t] = "idle"
    /\ rm_lock = NoThread
    /\ Len(rm_added) < MaxRecords
    /\ rm_lock' = t
    /\ \E route \in RouteMetricsInputs :
         LET metrics == <<Len(rm_added) + 1, route>> IN
           /\ route_metrics' = Append(route_metrics, metrics)
           /\ rm_added' = Append(rm_added, metrics)
    /\ rm_pc' = [rm_pc EXCEPT ![t] = "pushed"]
    /\ HistFrame

(* the test, the drain, and the end of the write guard (analytics.rs:152-155) *)
add_route_metrics_trim(t) ==
    /\ rm_pc[t] = "pushed"
    /\ route_metrics' = IF OverWindow(Len(route_metrics))
                        THEN Drain(route_metrics, Len(route_metrics) - HistoryWindow)
                        ELSE route_metrics
    /\ rm_lock' = NoThread
    /\ rm_pc' = [rm_pc EXCEPT ![t] = "idle"]
    /\ UNCHANGED rm_added
    /\ HistFrame

(* AnalyticsEngine::new (analytics.rs:96) *)
HistInit ==
    /\ route_metrics = <<>>
    /\ rm_lock = NoThread
    /\ rm_pc = [t \in Threads |-> "idle"]
    /\ rm_added = <<>>

HistNext ==
    \/ \E t \in Threads : add_route_metrics_push(t)
    \/ \E t \in Threads : add_route_metrics_trim(t)

(* PacketProcessor::new (packet_processor.rs:84-92) and PacketStats::default *)
ProcInit ==
    /\ proc_stats = [packets_received |-> 0, packets_processed |-> 0, packets_dropped |-> 0,
                     packets_forwarded |-> 0, bytes_received |-> 0, bytes_processed |-> 0,
                     bytes_dropped |-> 0, bytes_forwarded |-> 0, errors |-> 0,
                     processing_time_ns |-> 0, last_update |-> 1]
    /\ proc_batch = <<>>
    /\ proc_results = <<>>

ProcessorNext ==
    \/ \E batch \in ProcBatches : ProcCollect(batch)
    \/ process_packet_batch

----------------------------------------------------------------------------

RtInit ==
    /\ routes = EmptyMap
    /\ protocol_counts = EmptyMap
    /\ interface_counts = EmptyMap
    /\ last_update = 0
    /\ total_updates = 0
    /\ rt_writer = NoThread
    /\ rt_readers = {}
    /\ rt_pc = [t \in Threads |-> "idle"]
    /\ rt_dest = [t \in Threads |-> NoAddress]
    /\ rt_result = [t \in Threads |-> None]
    /\ rt_ret = [t \in Threads |-> Ok]
    /\ rt_op = [t \in Threads |-> <<>>]

Init ==
    /\ clock = 1
    /\ RtInit
    /\ PoolInit
    /\ FlowInit
    /\ MetricsInit
    /\ EngInit
    /\ ProcInit
    /\ SinkInit
    /\ WorkerInit
    /\ LockInit
    /\ SvcInit
    /\ HistInit

RtNext ==
    \/ \E t \in Threads : RtWriteLock(t)
    \/ \E t \in Threads, r \in RouteInputs : add_route(t, r)
    \/ \E t \in Threads, d \in Destinations : remove_route(t, d)
    \/ \E t \in Threads, d \in Destinations, r \in RouteInputs : update_route(t, d, r)
    \/ \E t \in Threads : RtWriteUnlock(t)
    \/ \E t \in Threads, a \in LookupAddresses : RtReadLock(t, a)
    \/ \E t \in Threads : RtLookup(t)
    \/ \E t \in Threads : RtReadUnlock(t)
    \/ Tick

SpecRT == Init /\ [][RtNext]_vars

RtStatsNext ==
    \/ \E t \in Threads : RtWriteLock(t)
    \/ \E t \in Threads, r \in StatsRouteInputs : add_route(t, r)
    \/ \E t \in Threads, d \in Destinations : remove_route(t, d)
    \/ \E t \in Threads, d \in Destinations, r \in StatsRouteInputs : update_route(t, d, r)
    \/ \E t \in Threads : RtWriteUnlock(t)

SpecRTStats == Init /\ [][RtStatsNext]_vars

SpecPool == Init /\ [][PoolNext]_vars

SpecFlow == Init /\ [][FlowNext]_vars

SpecFlowTable == Init /\ [][FlowTableNext]_vars

SpecCounters == Init /\ [][CountersNext]_vars

SpecLatency == Init /\ [][LatencyNext]_vars

SpecReset == Init /\ [][ResetNext]_vars

(* the steps of a record_latency call that has started *)
LatencyRun(t) ==
    \/ record_latency_count(t)
    \/ record_latency_max_load(t)
    \/ record_latency_max_cas(t)
    \/ record_latency_min(t)

(* a compare_exchange_weak on max_latency that succeeds *)
LatencyCasOk(t) == record_latency_max_cas(t) /\ max_latency' = m_arg[t]

(* Fair scheduling: a thread inside record_latency keeps taking steps, and *)
(* a compare_exchange_weak that meets the expected value again and again   *)
(* does not fail spuriously for ever.                                      *)
LatencyFairness ==
    \A t \in Threads : WF_vars(LatencyRun(t)) /\ SF_vars(LatencyCasOk(t))

SpecLatencyFair == Init /\ [][LatencyNext]_vars /\ LatencyFairness

SpecEngine == Init /\ [][EngineNext]_vars

SpecProcessor == Init /\ [][ProcessorNext]_vars

SpecSink == Init /\ [][SinkNext]_vars

SpecWorkers == Init /\ [][WorkerNext]_vars

SpecPoolLocks == Init /\ [][PoolLockNext]_vars

SpecService == Init /\ [][SvcNext]_vars

SpecHistory == Init /\ [][HistNext]_vars

----------------------------------------------------------------------------
(* Properties of the routing table *)

(* the keys of the stored active routes whose prefix matches dest_ip *)
ActiveMatching(table, dest_ip) ==
    {k \in DOMAIN table :
        /\ table[k].is_active
        /\ IpAddrFromStr(dest_ip) # None
        /\ matches_destination(IpAddrFromStr(dest_ip)[1], table[k].destination)}

(* every result find_best_route can give on `table`, over the iteration orders *)
LookupResults(table, dest_ip) ==
    {find_best_route(table, o, dest_ip) : o \in Orders(DOMAIN table)}

HoldsActive(table, destination) ==
    /\ destination \in DOMAIN table
    /\ table[destination].destination = destination
    /\ table[destination].is_active

(* C1: longest-prefix match. When the table holds an active 10.0.0.0/24    *)
(* and an active default route 0.0.0.0/0, whatever their metrics, a lookup *)
(* of 10.0.0.5 (inside the specific prefix) returns the specific route and *)
(* a lookup of 8.8.8.8 (covered by the default only) returns the default.  *)
C1_LongestPrefixMatch ==
    \A t \in Threads :
        (rt_pc[t] = "looked" /\ HoldsActive(routes, "10.0.0.0/24") /\ HoldsActive(routes, "0.0.0.0/0"))
        => /\ rt_dest[t] = "10.0.0.5" => rt_result[t] = Some(routes["10.0.0.0/24"])
           /\ rt_dest[t] = "8.8.8.8" => rt_result[t] = Some(routes["0.0.0.0/0"])

(* C2: tie-break on a duplicate key. An add_route of a valid route whose   *)
(* key is already held leaves the table holding the one of the two routes  *)
(* with the lower metric: a better metric replaces, a worse metric is a    *)
(* no-op.                                                                  *)
C2_DuplicateKeyKeepsLowerMetric ==
    [][\A t \in Threads, r \in RouteInputs :
          (/\ add_route(t, r)
           /\ validate_route(r) = Ok
           /\ r.destination \in DOMAIN routes
           /\ routes[r.destination].destination = r.destination
           /\ routes[r.destination].is_active /\ r.is_active
           /\ routes[r.destination].metric # r.metric)
          => routes'[r.destination] =
                (IF U32Less(r.metric, routes[r.destination].metric)
                 THEN r ELSE routes[r.destination])]_vars

(* C3: a lookup returns a route only if that route is stored, active and   *)
(* its prefix matches the destination, and it returns none exactly when no *)
(* stored active route matches.                                            *)
C3_LookupReturnsMatchingRoute ==
    \A t \in Threads :
        rt_pc[t] = "looked" =>
            /\ rt_result[t] # None =>
                  \E k \in ActiveMatching(routes, rt_dest[t]) : routes[k] = rt_result[t][1]
            /\ rt_result[t] = None <=> ActiveMatching(routes, rt_dest[t]) = {}

----------------------------------------------------------------------------
(* Properties of the memory pool *)

(* C5: the number of buffers held in the pool never exceeds max_pool_size, *)
(* after any interleaving of get_packet, return_packet, cleanup and clear. *)
C5_PoolSizeBounded == Len(buffers) <= max_pool_size

(* a return_packet found the pool full and discarded its buffer *)
C5_Witness ==
    \E t \in Threads :
        /\ pool_pc[t] = "done"
        /\ pool_arg[t] = Some("discarded")
        /\ max_pool_size > 0
        /\ Len(buffers) = max_pool_size

(* the ids of the buffers some party holds: the pool, a caller's leases, a *)
(* return_packet call that has taken its argument                          *)
SeqIds(bufs) == [i \in 1..Len(bufs) |-> bufs[i].id]

InReturn(t) ==
    IF pool_pc[t] \in {"return_wait", "return_packet"} THEN <<pool_arg[t][1].id>> ELSE <<>>

RECURSIVE HeldByThreads(_)
HeldByThreads(n) ==
    IF n = 0 THEN <<>>
    ELSE HeldByThreads(n - 1) \o SeqIds(leased[n]) \o InReturn(n)

HeldIds == SeqIds(buffers) \o HeldByThreads(NumThreads)

(* C6: a buffer is never held by two parties at once: no buffer is both in *)
(* the pool and leased, none is pooled twice, and no two get_packet calls  *)
(* hand out the same buffer.                                               *)
C6_NoBufferAliasing ==
    \A i, j \in 1..Len(HeldIds) : i # j => HeldIds[i] # HeldIds[j]

(* two callers hold leases at once, one of them served from the pool *)
C6_Witness ==
    \E t1, t2 \in Threads :
        /\ t1 # t2
        /\ leased[t1] # <<>>
        /\ leased[t2] # <<>>
        /\ total_allocations > created_buffers

----------------------------------------------------------------------------
(* Properties of the flow table *)

(* the flow entries of a 5-tuple *)
EntriesOf(tuple) ==
    {k \in DOMAIN flow_table :
        <<flow_table[k].source_ip, flow_table[k].destination_ip, flow_table[k].source_port,
          flow_table[k].destination_port, flow_table[k].protocol>> = tuple}

(* C7: flow aggregation. Once the process_packet calls of a 5-tuple have   *)
(* returned (none is in progress), N >= 1 of them leave exactly one flow   *)
(* entry for it, with packet_count = N and byte_count = the sum of their   *)
(* packet sizes, whether they ran one after the other or concurrently; a   *)
(* 5-tuple with no call has no entry.                                      *)
C7_FlowAggregation ==
    \A tuple \in FiveTuples :
        (\A t \in Threads : flow_pc[t] # "idle" => FiveTuple(flow_pkt[t]) # tuple)
        => IF flow_calls.returned[tuple].calls = 0
           THEN EntriesOf(tuple) = {}
           ELSE /\ Cardinality(EntriesOf(tuple)) = 1
                /\ \A k \in EntriesOf(tuple) :
                      /\ flow_table[k].packet_count = flow_calls.returned[tuple].calls
                      /\ flow_table[k].byte_count = flow_calls.returned[tuple].bytes

(* three packets of one 5-tuple were aggregated, next to a second 5-tuple's flow or not *)
C7_Witness ==
    /\ \A t \in Threads : flow_pc[t] = "idle"
    /\ \E k \in DOMAIN flow_table :
          flow_table[k].packet_count = 3 /\ flow_table[k].byte_count = 1500 + 1500 + 64


----------------------------------------------------------------------------
(* Metrics (SpecCounters, SpecLatency) *)

Recording == \E t \in Threads : m_pc[t] # "idle"

(* C8: no update of a counter is lost. Whenever no record_* call is in     *)
(* progress, packets_processed, packets_dropped, packets_forwarded,        *)
(* packets_routed and errors each equal the number of calls of their       *)
(* recording function that returned, and bytes_processed equals the sum of *)
(* the sizes passed to record_packet_processed, however the calls of the   *)
(* threads interleaved.                                                    *)
C8_NoLostCounterUpdate ==
    ~Recording =>
        /\ packets_processed = m_calls.processed
        /\ bytes_processed = m_calls.bytes
        /\ packets_dropped = m_calls.dropped
        /\ packets_forwarded = m_calls.forwarded
        /\ packets_routed = m_calls.routed
        /\ errors = m_calls.errors

C8_Witness ==
    /\ ~Recording
    /\ m_calls.processed = 2
    /\ m_calls.bytes = 2500
    /\ bytes_processed = 2500
    /\ m_calls.dropped = 1
    /\ packets_dropped = 1

SmallestOf(S) == CHOOSE v \in S : \A w \in S : v <= w

(* C9: a completed get_metrics reports as min_latency_ns the smallest      *)
(* latency recorded: a latency that was passed to record_latency, and none *)
(* above the smallest latency of the record_latency calls that returned    *)
(* before the get_metrics began (1000 after record_latency(1000) and       *)
(* record_latency(2000)).                                                  *)
C9_MinLatencyIsSmallestRecorded ==
    (snap_pc = 10 /\ snap_lat_done # {}) =>
        /\ snap.min_latency_ns \in lat_started
        /\ snap.min_latency_ns <= SmallestOf(snap_lat_done)

(* C10: max_latency is never below the latency of a record_latency call    *)
(* that has returned, and it is 0 or a latency that was passed to          *)
(* record_latency; a compare-exchange that lost its race never puts a      *)
(* smaller value over a larger one. A completed get_metrics reports a      *)
(* max_latency_ns that is 0 or a recorded latency and is not below the     *)
(* latency of any record_latency call that returned before it began.       *)
C10_MaxLatencyMonotone ==
    /\ \A v \in lat_done : max_latency >= v
    /\ max_latency \in {0} \cup lat_started
    /\ snap_pc = 10 =>
          /\ \A v \in snap_lat_done : snap.max_latency_ns >= v
          /\ snap.max_latency_ns \in {0} \cup lat_started

(* two calls returned, a snapshot taken after one of them reports 2000,    *)
(* and a third call is about to lose its compare-exchange                  *)
C10_Witness ==
    /\ lat_done = {1000, 2000}
    /\ max_latency = 2000
    /\ m_calls.latency = 2
    /\ snap_pc = 10
    /\ snap_lat_done # {}
    /\ snap.max_latency_ns = 2000
    /\ \E t \in Threads : m_pc[t] = "max_cas" /\ m_cur[t] # max_latency


(* C11: the packets_processed, bytes_processed and packets_dropped of a    *)
(* completed get_metrics are not below those the get_metrics call before   *)
(* it returned, however the record_* calls interleave with the two.        *)
C11_SnapshotCountersNonDecreasing ==
    (snap_pc = 10 /\ prev_snap # None) =>
        /\ snap.packets_processed >= prev_snap[1].packets_processed
        /\ snap.bytes_processed >= prev_snap[1].bytes_processed
        /\ snap.packets_dropped >= prev_snap[1].packets_dropped

(* two completed snapshots with recording in between and during the second *)
C11_Witness ==
    /\ snap_pc = 10
    /\ prev_snap # None
    /\ prev_snap[1].packets_processed = 1
    /\ snap.packets_processed = 2
    /\ snap.bytes_processed > prev_snap[1].bytes_processed
    /\ snap.packets_dropped = 1
    /\ prev_snap[1].packets_dropped = 0


----------------------------------------------------------------------------
(* More properties of the flow table *)

(* the 5-tuple of test_application_detection (analytics.rs:405-422) *)
HttpTuple == <<"192.168.1.1", "192.168.1.2", 80, 8080, 6>>

(* C12: once two process_packet calls of TCP packets from port 80 to port  *)
(* 8080 between 192.168.1.1 and 192.168.1.2, each of size 1500, have       *)
(* returned and none is in progress, the 5-tuple has one flow with         *)
(* packet_count 2, byte_count 3000 and the application label "HTTP", the   *)
(* label of its well-known port 80, here the source port.                  *)
C12_ApplicationLabel ==
    (/\ \A t \in Threads : flow_pc[t] = "idle"
     /\ flow_calls.returned[HttpTuple].calls = 2
     /\ flow_calls.returned[HttpTuple].bytes = 3000)
    => /\ Cardinality(EntriesOf(HttpTuple)) = 1
       /\ \A k \in EntriesOf(HttpTuple) :
             /\ flow_table[k].packet_count = 2
             /\ flow_table[k].byte_count = 3000
             /\ flow_table[k].application = "HTTP"


(* the 5-tuple a flow entry records *)
TupleOf(flow) ==
    <<flow.source_ip, flow.destination_ip, flow.source_port, flow.destination_port,
      flow.protocol>>

(* C13: flow keys are unique per 5-tuple. generate_flow_id gives distinct  *)
(* 5-tuples distinct keys, so the entry a packet is counted into, found    *)
(* under the packet's key, is the entry of the packet's own 5-tuple:       *)
(* packets of two distinct 5-tuples never share a flow entry.              *)
C13_FlowKeysUnique ==
    \A t \in Threads :
        (flow_pc[t] = "update" /\ flow_found[t] /\ flow_id[t] \in DOMAIN flow_table)
        => TupleOf(flow_table[flow_id[t]]) = FiveTuple(flow_pkt[t])

(* C14: flow eviction. When the retain of cleanup_old_flows(max_age) is    *)
(* done, no flow whose time since last_seen exceeds max_age is in the flow *)
(* table and every flow whose idle time was below max_age is still there,  *)
(* unchanged. A process_packet that returns, before or after a cleanup,    *)
(* has its packet counted in the table: added to the flow of its key when  *)
(* that flow is there, and as a new flow otherwise.                        *)
C14_FlowEviction ==
    [][\A t \in Threads :
          /\ (flow_pc[t] = "cleanup" /\ flow_pc'[t] = "cleaned") =>
                /\ \A k \in DOMAIN flow_table' :
                      ~(DurationSince(flow_now'[t], flow_table'[k].last_seen)
                            > flow_max_age[t])
                /\ \A k \in DOMAIN flow_table :
                      DurationSince(flow_now'[t], flow_table[k].last_seen) < flow_max_age[t]
                      => k \in DOMAIN flow_table' /\ flow_table'[k] = flow_table[k]
          /\ (flow_pc[t] = "update" /\ flow_pc'[t] = "idle") =>
                /\ flow_id[t] \in DOMAIN flow_table'
                /\ IF flow_id[t] \in DOMAIN flow_table
                   THEN /\ flow_table'[flow_id[t]].packet_count
                              = flow_table[flow_id[t]].packet_count + 1
                        /\ flow_table'[flow_id[t]].byte_count
                              = flow_table[flow_id[t]].byte_count + flow_pkt[t].packet_size
                   ELSE /\ flow_table'[flow_id[t]].packet_count = 1
                        /\ flow_table'[flow_id[t]].byte_count = flow_pkt[t].packet_size
      ]_vars

(* a cleanup evicted one flow and kept another, while a process_packet     *)
(* call waits for the lock                                                 *)
C14_Witness ==
    \E t, u \in Threads :
        /\ flow_pc[t] = "cleaned"
        /\ flow_max_age[t] = 1
        /\ flow_evicted[t] # {}
        /\ DOMAIN flow_table # {}
        /\ flow_pc[u] = "lock"


----------------------------------------------------------------------------
(* More properties of the routing table *)

(* thread t's mutating call `name` runs its body in this step *)
RtCallDone(t, name) ==
    rt_pc[t] = "writing" /\ rt_pc'[t] = "wrote" /\ rt_op'[t][1] = name

RtTableUnchanged ==
    UNCHANGED <<routes, protocol_counts, interface_counts, last_update, total_updates>>

(* C15: remove_route of a destination that is not in the table returns an  *)
(* error ("not found") to its caller and leaves routes, protocol counts,   *)
(* interface counts, last_update and total_updates unchanged.              *)
C15_RemoveAbsentReportsNotFound ==
    [][\A t \in Threads :
          (RtCallDone(t, "remove_route") /\ rt_op'[t][2] \notin DOMAIN routes)
          => /\ rt_ret'[t] # Ok
             /\ RtTableUnchanged
      ]_vars

(* the destination is an IPv4 network: "address/length" with an IPv4 address *)
IsIpv4Destination(destination) ==
    /\ Len(SplitSlash(destination)) = 2
    /\ IpAddrFromStr(SplitSlash(destination)[1]) # None
    /\ IpAddrFromStr(SplitSlash(destination)[1])[1].family = "V4"

(* a route the validation has to reject *)
InvalidRoute(route) ==
    \/ route.destination = ""
    \/ route.gateway = ""
    \/ route.interface = ""
    \/ route.prefix_length > (IF IsIpv4Destination(route.destination) THEN 32 ELSE 128)

(* C16: add_route of a route with an empty destination, gateway or         *)
(* interface, or with a prefix length above 32 for an IPv4 destination     *)
(* (above 128 otherwise), returns an error and leaves routes, the counts,  *)
(* last_update and total_updates unchanged.                                *)
C16_AddInvalidRouteRejected ==
    [][\A t \in Threads :
          (RtCallDone(t, "add_route") /\ InvalidRoute(rt_op'[t][2]))
          => /\ rt_ret'[t] # Ok
             /\ RtTableUnchanged
      ]_vars

PoolCallsReturning(results) ==
    Cardinality({t \in Threads : pool_pc[t] = "done" /\ pool_arg[t] \in results})

(***************************************************************************)
(* C18: total_allocations is the number of get_packet calls that have      *)
(* completed and total_deallocations the number of return_packet calls     *)
(* that have completed, the buffer recycled or dropped; a call that is     *)
(* about to return has already been counted.                               *)
(***************************************************************************)
C18_CountersCountCalls ==
    /\ total_allocations =
          pool_calls.get_packet + PoolCallsReturning({Some("leased")})
    /\ total_deallocations =
          pool_calls.return_packet + PoolCallsReturning({Some("recycled"), Some("discarded")})
    /\ (\A t \in Threads : PoolIdle(t)) =>
          /\ total_allocations = pool_calls.get_packet
          /\ total_deallocations = pool_calls.return_packet

(* three get_packet calls and three return_packet calls have completed;   *)
(* three buffers were created and the full pool kept all but one           *)
C18_Witness ==
    /\ \A t \in Threads : PoolIdle(t)
    /\ pool_calls.get_packet = 3
    /\ pool_calls.return_packet = 3
    /\ total_deallocations = 3
    /\ created_buffers = 3
    /\ Len(buffers) = max_pool_size

C20_PooledBuffersZeroed ==
    /\ \A i \in 1..Len(buffers) :
          /\ ~buffers[i].dirty
          /\ buffers[i].size = buffer_size
    /\ \A t \in Threads : \A i \in 1..Len(leased[t]) : ~leased[t][i].dirty

(* get_packet has just handed out again the one buffer ever created, which *)
(* a holder had written to and returned                                    *)
C20_Witness ==
    \E t \in Threads :
        /\ pool_pc[t] = "done"
        /\ pool_arg[t] = Some("leased")
        /\ created_buffers = 1
        /\ total_allocations = 2
        /\ total_deallocations = 1
        /\ Len(leased[t]) = 1
        /\ leased[t][1].id = 0

(***************************************************************************)
(* C21: cleanup() removes a pooled buffer only if it is both older than    *)
(* the maximum age and idle for longer than the idle threshold; every      *)
(* other pooled buffer stays, and no counter changes.                      *)
(***************************************************************************)
C21_CleanupRemovesOnlyAgedAndIdle ==
    [][\A t \in Threads :
         (pool_pc[t] = "cleanup" /\ pool_pc'[t] = "done") =>
            /\ \A i \in 1..Len(buffers) :
                  (\E j \in 1..Len(buffers') : buffers'[j] = buffers[i])
                     <=> ~(/\ clock - buffers[i].created_at > MaxAgeSecs
                           /\ clock - buffers[i].last_used > MaxIdleSecs)
            /\ UNCHANGED <<created_buffers, total_allocations, total_deallocations>>]_vars

(***************************************************************************)
(* C22: a buffer obtained from get_packet after another buffer was handed  *)
(* back with return_packet has an id different from the id of the buffer   *)
(* handed back (the pool holds exactly the buffers handed back).           *)
(***************************************************************************)
C22_GetPacketAfterReturnNewId ==
    [][\A t \in Threads :
         (pool_pc[t] = "get_packet" /\ pool_pc'[t] = "done") =>
            \A i \in 1..Len(buffers) :
               leased'[t][Len(leased'[t])].id # buffers[i].id]_vars

(* MemoryPool::get_stats (memory_pool.rs:139-154): the values the field    *)
(* active_buffers can get, read with the buffers mutex held                *)
get_stats_active_buffers == UsizeSub(created_buffers, total_deallocations)

(***************************************************************************)
(* C23: get_stats().active_buffers is the number of buffers leased and not *)
(* yet returned, and created_buffers - total_deallocations never goes      *)
(* below zero.                                                             *)
(***************************************************************************)
C23_ActiveBuffersIsLeasedCount ==
    (\A t \in Threads : PoolIdle(t)) =>
        /\ created_buffers >= total_deallocations
        /\ get_stats_active_buffers =
              {<<"value", Cardinality({<<t, i>> \in Threads \X (1..MaxAllocs) :
                                          i <= Len(leased[t])})>>}

----------------------------------------------------------------------------
(* The frames of the model by what they are, read off their bytes          *)

(* well-formed IPv4 and IPv6 frames, and the address they are sent to *)
WellFormedFrames ==
    {"ipv4_tcp_80", "ipv4_udp_53_ef", "ipv4_local", "ipv4_local_udp", "ipv4_no_route",
     "ipv6_routed", "ipv6_local"}

FrameDestination(name) == EngDestination(FrameBytes(name))

(* the addresses of the router's own interfaces *)
LocalAddresses == {<<10, 0, 0, 1>>, Ipv6Local}

TransitFrames == {f \in WellFormedFrames : FrameDestination(f) \notin LocalAddresses}

LocalFrames == {f \in WellFormedFrames : FrameDestination(f) \in LocalAddresses}

(* a process_packet call that has done all its work and is about to return *)
EngReturning(t) == eng_pc[t] = "return"

(***************************************************************************)
(* C24: a well-formed IPv4 or IPv6 frame whose destination is not a local  *)
(* address gets one routing table lookup, and is counted as routed exactly *)
(* when the table holds a route for its destination and as dropped exactly *)
(* when it holds none; never both and never neither.                       *)
(***************************************************************************)
C24_TransitRoutedOrDropped ==
    \A t \in Threads :
        (EngReturning(t) /\ eng_frame[t] \in TransitFrames) =>
            LET counted == eng_call[t].counted
                found == RoutesHolding(routes, FrameDestination(eng_frame[t])) # {}
            IN  /\ eng_call[t].lookups = 1
                /\ counted.packets_routed = (IF found THEN 1 ELSE 0)
                /\ counted.packets_dropped = (IF found THEN 0 ELSE 1)

(* an IPv6 frame has been looked up with no route for it in the table, and *)
(* an IPv4 frame with its route in the table                               *)
C24_Witness ==
    /\ EngReturning(1) /\ eng_frame[1] = "ipv6_routed"
    /\ eng_call[1].counted.packets_dropped = 1
    /\ EngReturning(2) /\ eng_frame[2] = "ipv4_tcp_80"
    /\ eng_call[2].counted.packets_routed = 1

(***************************************************************************)
(* C25: a frame whose destination is the address of a local interface is   *)
(* delivered locally: no routing table lookup is made for it and neither   *)
(* the routed nor the dropped counter changes, whatever the table holds.   *)
(***************************************************************************)
C25_LocalDeliveryNoLookup ==
    \A t \in Threads :
        (EngReturning(t) /\ eng_frame[t] \in LocalFrames) =>
            /\ eng_call[t].lookups = 0
            /\ eng_call[t].counted.packets_routed = 0
            /\ eng_call[t].counted.packets_dropped = 0
            /\ Capture(t) \notin rt_readers

(* a frame for the router's own address has been delivered while the table *)
(* holds a route whose network contains that address                       *)
C25_Witness ==
    \E t \in Threads :
        /\ EngReturning(t)
        /\ eng_frame[t] = "ipv4_local"
        /\ RoutesHolding(routes, FrameDestination("ipv4_local")) # {}

(***************************************************************************)
(* C26: an unparsable frame (too short for its link-layer or network-layer *)
(* header, or with a wrong IP version) changes only the drop counter: not  *)
(* processed, bytes processed, forwarded, routed or errors.                *)
(***************************************************************************)
C26_MalformedOnlyDropCounter ==
    \A t \in Threads :
        (EngReturning(t) /\ eng_frame[t] \in {"runt", "ipv4_short", "ipv4_bad_version"}) =>
            eng_call[t].counted = [NoCounts EXCEPT !.packets_dropped = 1]

(***************************************************************************)
(* C27: a frame whose ethertype is neither IPv4 nor IPv6 is counted as a   *)
(* drop and never as processed, forwarded, routed or as an error.          *)
(***************************************************************************)
C27_UnsupportedEthertypeDropped ==
    \A t \in Threads :
        (EngReturning(t) /\ eng_frame[t] \in {"arp", "lldp"}) =>
            /\ eng_call[t].counted.packets_dropped = 1
            /\ eng_call[t].counted.packets_processed = 0
            /\ eng_call[t].counted.packets_forwarded = 0
            /\ eng_call[t].counted.packets_routed = 0
            /\ eng_call[t].counted.errors = 0

(* how a call ended, read off what it did *)
EngOutcome(t) ==
    <<eng_call[t].lookups, eng_call[t].counted.packets_routed,
      eng_call[t].counted.packets_dropped, eng_call[t].counted.packets_forwarded>>

(***************************************************************************)
(* C29: two well-formed frames with the same destination address that      *)
(* differ only in ports, transport protocol or DSCP get the same outcome   *)
(* (local delivery, routed or dropped) against the same routing table: two *)
(* calls that are both about to return hold their read guards, if any,     *)
(* over the same table.                                                    *)
(***************************************************************************)
C29_ClassificationDoesNotAffectForwarding ==
    \A t, u \in Threads :
        (/\ EngReturning(t) /\ EngReturning(u)
         /\ eng_frame[t] \in WellFormedFrames /\ eng_frame[u] \in WellFormedFrames
         /\ FrameDestination(eng_frame[t]) = FrameDestination(eng_frame[u]))
        => EngOutcome(t) = EngOutcome(u)

(* a TCP frame and a UDP frame with DSCP 46 for the same destination have  *)
(* both been routed                                                        *)
C29_Witness ==
    /\ EngReturning(1) /\ eng_frame[1] = "ipv4_tcp_80"
    /\ EngReturning(2) /\ eng_frame[2] = "ipv4_udp_53_ef"
    /\ eng_call[1].counted.packets_routed = 1
    /\ eng_call[2].counted.packets_routed = 1

(***************************************************************************)
(* C28: for every frame, of every length, process_single_packet returns a  *)
(* processed-or-dropped result: never an error and never a read outside    *)
(* the frame, also for an IPv4 header whose IHL points past the end of the *)
(* frame and for frames shorter than the Ethernet header.                  *)
(***************************************************************************)
C28_ParsingNeverFails ==
    /\ \A i \in 1..Len(proc_results) : proc_results[i][2] \in {OkBool(TRUE), OkBool(FALSE)}
    /\ proc_stats.errors = 0

(* a batch of a frame whose header length passes the end of the frame and *)
(* a frame with IPv4 options and no room for ports has been processed     *)
C28_Witness ==
    /\ Len(proc_results) = 2
    /\ proc_results[1] = <<"ipv4_ihl_past_end", OkBool(FALSE)>>
    /\ proc_results[2] = <<"ipv4_options_no_ports", OkBool(TRUE)>>
    /\ proc_stats.packets_received = 3

(***************************************************************************)
(* C30: every metric record an analytics buffer accepted is handed to the  *)
(* sink in a successful insert, also when earlier inserts fail: a failed   *)
(* threshold flush, periodic flush or flush-all never discards the records *)
(* it was carrying.  Stated on finite runs: every accepted record is in    *)
(* its buffer, carried by a flush in progress, or inserted; a record that  *)
(* is in none of the three can no more reach the sink.                     *)
(***************************************************************************)
C30_AcceptedRecordsNotDiscarded ==
    \A engine \in Engines : \A metric \in 1..recorded[engine] :
        \/ metric \in inserted[engine]
        \/ metric \in Range(metrics_buffer[engine])
        \/ \E flush \in flushing : flush.engine = engine /\ metric \in Range(flush.metrics)

CallsSinceReset(call) == m_calls[call] - reset_calls[1][call]

(* a reset has returned, and no reset and no record_* call is running *)
QuietAfterReset ==
    /\ reset_calls # None
    /\ reset_pc = 0
    /\ \A t \in Threads : m_pc[t] = "idle"

C33_DefaultRouteAlwaysMatches ==
    \A t \in Threads :
        (/\ rt_pc[t] = "looked"
         /\ IpAddrFromStr(rt_dest[t]) # None
         /\ IpAddrFromStr(rt_dest[t])[1].family = "V4"
         /\ "0.0.0.0/0" \in DOMAIN routes
         /\ routes["0.0.0.0/0"].is_active)
        => rt_result[t] # None

(* the stored routes that have `value` in `field` *)
StoredWith(field, value) == Cardinality({k \in DOMAIN routes : routes[k][field] = value})

(***************************************************************************)
(* C34: route statistics agree with the route set: after any sequence of   *)
(* add_route, update_route and remove_route, get_stats reports             *)
(* total_routes equal to the number of stored routes and, for each         *)
(* protocol and each interface, a count equal to the number of stored      *)
(* routes with that protocol or interface, also after re-adding or         *)
(* updating a destination with a different protocol or interface.          *)
(***************************************************************************)
C34_StatsAgreeWithRoutes ==
    /\ get_stats.total_routes = Cardinality(DOMAIN routes)
    /\ get_stats.static_routes = StoredWith("protocol", "static")
    /\ get_stats.bgp_routes = StoredWith("protocol", "bgp")
    /\ get_stats.ospf_routes = StoredWith("protocol", "ospf")
    /\ get_stats.isis_routes = StoredWith("protocol", "isis")
    /\ \A i \in {"eth0", "eth1"} :
          CountOf(get_interface_distribution, i) = StoredWith("interface", i)

(***************************************************************************)
(* C36: every route is stored under a key equal to its own destination     *)
(* field, after any sequence of add_route, update_route and remove_route,  *)
(* so get_route(d) never returns a route whose destination differs from d. *)
(***************************************************************************)
C36_KeyIsRouteDestination ==
    \A d \in DOMAIN routes : routes[d].destination = d

(***************************************************************************)
(* C35: after initialize() followed by start() the processing workers are  *)
(* running, whatever the interleaving of worker start-up with start():     *)
(* every packet process_packet accepted is dequeued by a worker and        *)
(* counted.  Stated on finite runs: once start has returned, a packet      *)
(* waiting in the channel has a worker that has not left its loop.         *)
(***************************************************************************)
C35_WorkersRunAfterStart ==
    (started /\ channel # <<>>) => \E w \in Workers : worker_pc[w] # "stopped"

(***************************************************************************)
(* C38: packet processor accounting is complete: whenever the statistics   *)
(* lock is free, packets_received = packets_processed + packets_dropped +  *)
(* errors, with several workers updating the shared statistics.            *)
(***************************************************************************)
C38_AccountingComplete ==
    stats_lock = NoWorker =>
        proc_stats.packets_received
            = proc_stats.packets_processed + proc_stats.packets_dropped + proc_stats.errors

(* a worker holds the statistics lock while the other waits for it with a *)
(* batch, after a processed and a dropped packet were counted             *)
C38_Witness ==
    /\ stats_lock # NoWorker
    /\ \E w \in Workers : worker_pc[w] = "process" /\ stats_lock # w
    /\ proc_stats.packets_processed >= 1
    /\ proc_stats.packets_dropped >= 1
    /\ accepted = 3

(* a thread inside a pool call waits for a mutex another thread holds *)
PoolBlocked(t) ==
    /\ lk_prog[t] # <<>>
    /\ Head(lk_prog[t])[1] = "lock"
    /\ Head(lk_prog[t])[2] \notin lk_poisoned
    /\ lk_holder[Head(lk_prog[t])[2]] # NoThread

(* whenever calls are in progress, one of them can take its next step *)
PoolCallsNeverStuck ==
    (\E t \in Threads : lk_prog[t] # <<>>)
        => \E t \in Threads : lk_prog[t] # <<>> /\ ~PoolBlocked(t)

(***************************************************************************)
(* C37: the memory pool cannot deadlock: under any interleaving of         *)
(* get_packet, return_packet, get_stats, cleanup and clear, every call     *)
(* acquires the locks it needs and returns; no two calls wait on each      *)
(* other's locks.  Stated on finite runs: the calls in progress are never  *)
(* all waiting, and no call ends in a panic instead of returning.          *)
(***************************************************************************)
C37_PoolCallsAcquireAndReturn ==
    /\ PoolCallsNeverStuck
    /\ lk_panicked = {}

(***************************************************************************)
(* C39: AnalyticsService runs at most one network-metrics task and one     *)
(* system-metrics task at any time: start() while running spawns nothing,  *)
(* and after stop() the previous tasks have ended, or end without          *)
(* recording again, before a later start() spawns new ones.                *)
(***************************************************************************)
C39_AtMostOneTaskPerKind ==
    \A kind \in TaskKinds : Cardinality({task \in svc_tasks : task.kind = kind}) <= 1

(* the last HistoryWindow entries of a list *)
LastEntries(list) ==
    IF Len(list) > HistoryWindow THEN SubSeq(list, Len(list) - HistoryWindow + 1, Len(list))
    ELSE list

(***************************************************************************)
(* C40: the route-metrics history is a bounded window: after any sequence  *)
(* of add_route_metrics calls, sequential or concurrent, the stored list   *)
(* never holds more than 1000 entries (HistoryWindow in the model) and     *)
(* always consists of the most recently added entries in insertion order.  *)
(***************************************************************************)
C40_HistoryIsBoundedWindow ==
    rm_lock = NoThread =>
        /\ Len(route_metrics) <= HistoryWindow
        /\ route_metrics = LastEntries(rm_added)

(* one entry more than the window holds was added, the first entry was *)
(* drained and the write lock released                                 *)
C40_Witness ==
    /\ rm_lock = NoThread
    /\ Len(rm_added) = HistoryWindow + 1
    /\ Len(route_metrics) = HistoryWindow
    /\ route_metrics[1][1] = 2
============================================================================
